---- MODULE Spec2Model ----
(***************************************************************************)
(* OpenCoop integrity and concurrency core: the hash-chained event ledger, *)
(* the command idempotency gate, the job claim registry and the order      *)
(* commands that use them.                                                 *)
(***************************************************************************)
EXTENDS Integers, Sequences, FiniteSets, TLC

(***************************************************************************)
(* Bounds of the model                                                     *)
(***************************************************************************)
\* number of appendEvent calls that may run concurrently
NumAppenders == 4
\* the clock reads 0..MaxClock milliseconds
MaxClock == 1
\* number of HTTP requests that pass through the idempotency gate
NumRequests == 3
\* number of workers that claim jobs
NumWorkers == 3
\* number of order commands that are called
MaxCommands == 4
\* the delivery fee of an order is 1..MaxFee, its tip 0..MaxTip (in paise)
MaxFee == 45
MaxTip == 2

(***************************************************************************)
(* Program constants                                                       *)
(***************************************************************************)
MAX_APPEND_RETRIES == 3
IN_FLIGHT_TTL_SEC == 60
REPLAY_TTL_SEC == 300
CLAIM_TTL_SEC == 3600
poolContributionRate == 10
infraFeeRate == 10

VARIABLES
  eventLog,     \* rows of the event_log table
  appender,     \* the running appendEvent calls
  clock,        \* Date.now(), in milliseconds
  tampered,     \* the rows changed behind the ledger's back
  idemStore,    \* the idempotency records in Redis, by store key
  request,      \* the HTTP requests and how far the gate has taken them
  finalised,    \* by store key: the result of the last done finalisation, until it expires
  order,        \* the rows of the orders table: status and worker
  escrow,       \* the status of the escrow record of each order
  jobBoard,     \* the sorted set openfood:jobboard
  jobDetail,    \* the order ids with a key openfood:job:<id>
  claimMarker,  \* the keys openfood:claim:<id>: the holder and the time to live
  call,         \* the command each caller is running
  emitted,      \* the types of the events emitted by the order commands, in order
  commands,     \* number of order commands called so far
  amounts,      \* the subtotal, delivery fee and tip of each order
  payout,       \* the payout fields of the escrow record of each order
  pool,         \* the row of pool_state: the balance
  poolLedger,   \* the rows of pool_ledger, in the order of their insertion
  dailyEarnings,\* the row of worker_daily_earnings of each worker for today
  totalDeliveries, \* workers.total_deliveries of each worker
  dispute,      \* the dispute of each order: none, open or resolved, and its resolution
  systemParameters, \* the row of system_parameters: the governed rates
  proposals,    \* the rows of proposals: status and parameter change
  encoding      \* two values, their canonical encodings and the hashes of these

ledgerVars == <<eventLog, appender, clock, tampered>>
idemVars == <<idemStore, request, finalised>>
orderVars == <<order, escrow, jobBoard, jobDetail, claimMarker, call, emitted, commands>>
settleVars == <<amounts, payout, pool, poolLedger, dailyEarnings, totalDeliveries, dispute>>
governVars == <<systemParameters, proposals>>
vars == <<ledgerVars, idemVars, orderVars, settleVars, governVars, encoding>>
exceptLedger == <<idemVars, orderVars, settleVars, governVars, encoding>>
exceptIdem == <<ledgerVars, orderVars, settleVars, governVars, encoding>>
\* what the commands on the order and the board leave alone
exceptOrder == <<ledgerVars, idemVars, settleVars, governVars, encoding>>
\* what the settlement and the disputes leave alone
exceptSettle == <<ledgerVars, idemVars, governVars, encoding>>

(***************************************************************************)
(* JSON values.  An object is a sequence of <<key, value>> pairs in        *)
(* insertion order, which is what Object.keys() enumerates.                *)
(***************************************************************************)
JNull == [k |-> "null", s |-> "", n |-> 0, items |-> <<>>]
JNum(x) == [k |-> "num", s |-> "", n |-> x, items |-> <<>>]
JStr(x) == [k |-> "str", s |-> x, n |-> 0, items |-> <<>>]
JArr(xs) == [k |-> "arr", s |-> "", n |-> 0, items |-> xs]
JObj(pairs) == [k |-> "obj", s |-> "", n |-> 0, items |-> pairs]

\* Array.prototype.sort() on the keys: UTF-16 code unit order
JsKeyOrder == <<"a", "ab", "b", "data", "eventType", "occurredAt", "previousHash">>
\* PostgreSQL jsonb stores object keys ordered by length, then bytewise
JsonbKeyOrder == <<"a", "b", "ab", "data", "eventType", "occurredAt", "previousHash">>

HasKey(pairs, key) == \E i \in 1..Len(pairs) : pairs[i][1] = key
ValueOfKey(pairs, key) == pairs[CHOOSE i \in 1..Len(pairs) : pairs[i][1] = key][2]

\* the pairs of an object listed in the given key order
RECURSIVE PairsInOrder(_, _, _)
PairsInOrder(pairs, keyOrder, i) ==
  IF i > Len(keyOrder) THEN <<>>
  ELSE (IF HasKey(pairs, keyOrder[i])
          THEN << <<keyOrder[i], ValueOfKey(pairs, keyOrder[i])>> >>
          ELSE <<>>) \o PairsInOrder(pairs, keyOrder, i + 1)

RECURSIVE JoinComma(_)
JoinComma(strs) ==
  IF Len(strs) = 0 THEN ""
  ELSE IF Len(strs) = 1 THEN strs[1]
  ELSE strs[1] \o "," \o JoinComma(Tail(strs))

\* JSON.stringify: the keys of an object in insertion order
RECURSIVE JSONStringify(_)
JSONStringify(value) ==
  CASE value.k = "null" -> "null"
    [] value.k = "num" -> ToString(value.n)
    [] value.k = "str" -> "\"" \o value.s \o "\""
    [] value.k = "arr" ->
         "[" \o JoinComma([i \in 1..Len(value.items) |-> JSONStringify(value.items[i])]) \o "]"
    [] value.k = "obj" ->
         "{" \o JoinComma([i \in 1..Len(value.items) |->
                  "\"" \o value.items[i][1] \o "\":" \o JSONStringify(value.items[i][2])]) \o "}"

\* stableStringify without the key sort
StringifyUnsorted(obj) == JSONStringify(obj)

RECURSIVE stableStringify(_)
stableStringify(obj) ==
  CASE obj.k = "null" -> "null"
    [] obj.k = "num" -> ToString(obj.n)
    [] obj.k = "str" -> "\"" \o obj.s \o "\""
    [] obj.k = "arr" ->
         "[" \o JoinComma([i \in 1..Len(obj.items) |-> stableStringify(obj.items[i])]) \o "]"
    [] obj.k = "obj" ->
         LET sorted == PairsInOrder(obj.items, JsKeyOrder, 1)
         IN "{" \o JoinComma([i \in 1..Len(sorted) |->
                  "\"" \o sorted[i][1] \o "\":" \o stableStringify(sorted[i][2])]) \o "}"

\* what a value looks like after it was written to and read from a jsonb column
RECURSIVE JsonbRoundTrip(_)
JsonbRoundTrip(obj) ==
  CASE obj.k = "arr" -> JArr([i \in 1..Len(obj.items) |-> JsonbRoundTrip(obj.items[i])])
    [] obj.k = "obj" ->
         LET stored == PairsInOrder(obj.items, JsonbKeyOrder, 1)
         IN JObj([i \in 1..Len(stored) |-> <<stored[i][1], JsonbRoundTrip(stored[i][2])>>])
    [] OTHER -> obj

\* SHA-256 is modelled as an injective function of its input
Sha256Hex(payload) == "sha256(" \o payload \o ")"

\* Date.toISOString() of a time in milliseconds, and new Date(iso)
ToISOString(ms) == "1970-01-01T00:00:00.00" \o ToString(ms) \o "Z"
Times == 0..MaxClock
DateOf(iso) == CHOOSE ms \in Times : ToISOString(ms) = iso

\* previousHash is a hex string or null
NullHash == ""
HashJson(h) == IF h = NullHash THEN JNull ELSE JStr(h)

computeEventHash(eventType, data, previousHash, occurredAt) ==
  Sha256Hex(stableStringify(JObj(<< <<"eventType", JStr(eventType)>>,
                                   <<"data", data>>,
                                   <<"previousHash", HashJson(previousHash)>>,
                                   <<"occurredAt", JStr(occurredAt)>> >>)))


(***************************************************************************)
(* Event ledger                                                            *)
(***************************************************************************)
AppenderIds == 1..NumAppenders
AggregateIds == {"x"}
AggregateTypes == {"order", "payment"}

EventTypes == <<"order.created", "order.cancelled", "payment.authorized", "payment.refunded">>
EventData ==
  << JObj(<< <<"b", JStr("x")>>, <<"a", JNum(1)>> >>),
     JObj(<< <<"ab", JArr(<<JNum(2), JNum(1)>>)>>, <<"b", JNull>> >>),
     JObj(<< <<"b", JObj(<< <<"ab", JNum(1)>>, <<"a", JNum(2)>> >>)>> >>),
     JObj(<<>>) >>
\* the aggregates the a-th call may append to: the first calls contend for the order
\* aggregate (one more of them than a call has attempts), further calls use the other
AggregateTypeChoices(a) ==
  IF a = 1 THEN AggregateTypes
  ELSE IF a <= MAX_APPEND_RETRIES + 1 THEN {"order"} ELSE {"payment"}
\* the event type and the data the a-th call appends
TypeOfCall(a) == EventTypes[((a - 1) % Len(EventTypes)) + 1]
DataOfCall(a) == EventData[((a - 1) % Len(EventData)) + 1]

NoCall == [pc |-> "idle", aggregateId |-> "", aggregateType |-> "", attempt |-> 0,
           version |-> 0, previousHash |-> NullHash, error |-> ""]

RowsOf(log, aggregateId, aggregateType) ==
  {r \in log : r.aggregateId = aggregateId /\ r.aggregateType = aggregateType}

\* the index event_log_aggregate_version without its uniqueness
NoUniqueIndex(log, row) == FALSE

\* uniqueIndex('event_log_aggregate_version') on (aggregate_id, aggregate_type, version)
UniqueIndexViolated(log, row) ==
  \E r \in RowsOf(log, row.aggregateId, row.aggregateType) : r.version = row.version

\* select hash, version ... order by version desc limit 1
LastEvent(log, aggregateId, aggregateType) ==
  {r \in RowsOf(log, aggregateId, aggregateType) :
     \A q \in RowsOf(log, aggregateId, aggregateType) : q.version <= r.version}

InitLedger ==
  /\ eventLog = {}
  /\ appender = [a \in AppenderIds |-> NoCall]
  /\ clock = 0
  /\ tampered = {}

\* the select at the top of a pass of the loop: the last version and hash
ReadLast(c) ==
  LET last == LastEvent(eventLog, c.aggregateId, c.aggregateType)
  IN [c EXCEPT !.pc = "insert",
               !.previousHash = IF last = {} THEN NullHash ELSE (CHOOSE r \in last : TRUE).hash,
               !.version = (IF last = {} THEN 0 ELSE (CHOOSE r \in last : TRUE).version) + 1]

\* appendEvent is called: attempt = 1 and the first select
AppendCall(a, aggregateId, aggregateType) ==
  /\ appender[a].pc = "idle"
  /\ appender' = [appender EXCEPT ![a] =
       ReadLast([NoCall EXCEPT !.aggregateId = aggregateId,
                               !.aggregateType = aggregateType, !.attempt = 1])]
  /\ UNCHANGED <<eventLog, clock, tampered>>
  /\ UNCHANGED exceptLedger

\* the select of a later pass of the loop
AppendRead(a) ==
  /\ appender[a].pc = "read"
  /\ appender' = [appender EXCEPT ![a] = ReadLast(appender[a])]
  /\ UNCHANGED <<eventLog, clock, tampered>>
  /\ UNCHANGED exceptLedger

\* the row a pass inserts: occurredAt is the clock's reading ms
RowToInsert(a, ms) ==
  LET c == appender[a]
      occurredAt == ToISOString(ms)
  IN [eventType |-> TypeOfCall(a), aggregateId |-> c.aggregateId,
      aggregateType |-> c.aggregateType, version |-> c.version,
      data |-> JsonbRoundTrip(DataOfCall(a)), previousHash |-> c.previousHash,
      hash |-> computeEventHash(TypeOfCall(a), DataOfCall(a), c.previousHash, occurredAt),
      occurredAt |-> DateOf(occurredAt)]

\* a pass that gives up on its first conflict
AfterConflictNoRetry(c) == [c EXCEPT !.pc = "thrown", !.error = "conflict"]

\* the catch block: retry while attempt < MAX_APPEND_RETRIES, else rethrow
AfterConflict(c) ==
  IF c.attempt < MAX_APPEND_RETRIES
    THEN [c EXCEPT !.pc = "read", !.attempt = c.attempt + 1]
    ELSE [c EXCEPT !.pc = "thrown", !.error = "conflict"]

\* the insert of a pass and what follows it: return, retry or throw
AppendInsert(a) ==
  /\ appender[a].pc = "insert"
  /\ LET row == RowToInsert(a, clock)
     IN IF UniqueIndexViolated(eventLog, row)
          THEN /\ eventLog' = eventLog
               /\ appender' = [appender EXCEPT ![a] = AfterConflict(appender[a])]
          ELSE /\ eventLog' = eventLog \cup {row}
               /\ appender' = [appender EXCEPT ![a].pc = "returned"]
  /\ UNCHANGED <<clock, tampered>>
  /\ UNCHANGED exceptLedger

\* the insert fails for a reason that is no version conflict: the error is rethrown
AppendStoreError(a) ==
  /\ appender[a].pc = "insert"
  /\ appender' = [appender EXCEPT ![a].pc = "thrown", ![a].error = "store"]
  /\ UNCHANGED <<eventLog, clock, tampered>>
  /\ UNCHANGED exceptLedger

\* time passes
Tick ==
  /\ clock < MaxClock
  /\ clock' = clock + 1
  /\ UNCHANGED <<eventLog, appender, tampered>>
  /\ UNCHANGED exceptLedger

NextLedger ==
  \/ \E a \in AppenderIds : \E i \in AggregateIds, t \in AggregateTypeChoices(a) : AppendCall(a, i, t)
  \/ \E a \in AppenderIds : AppendRead(a)
  \/ \E a \in AppenderIds : AppendInsert(a)
  \/ Tick
  \/ \E a \in AppenderIds : AppendStoreError(a)

\* ... order by version: the rows as events, ascending by version
RECURSIVE getEventsByAggregate(_, _, _)
getEventsByAggregate(log, aggregateId, aggregateType) ==
  LET rows == RowsOf(log, aggregateId, aggregateType)
  IN IF rows = {} THEN <<>>
     ELSE LET first == CHOOSE r \in rows : \A q \in rows : r.version <= q.version
          IN << [type |-> first.eventType, version |-> first.version,
                 occurredAt |-> ToISOString(first.occurredAt), data |-> first.data,
                 previousHash |-> first.previousHash, hash |-> first.hash] >>
             \o getEventsByAggregate(log \ {first}, aggregateId, aggregateType)

\* the loop of verifyHashChain without the recomputation of the hash
RECURSIVE VerifyLinksOnly(_, _)
VerifyLinksOnly(events, i) ==
  IF i > Len(events) THEN [valid |-> TRUE, brokenAtVersion |-> 0]
  ELSE IF events[i].previousHash # (IF i = 1 THEN NullHash ELSE events[i - 1].hash)
         THEN [valid |-> FALSE, brokenAtVersion |-> events[i].version]
         ELSE VerifyLinksOnly(events, i + 1)

\* the loop of verifyHashChain without the comparison of previousHash
RECURSIVE VerifyHashesOnly(_, _)
VerifyHashesOnly(events, i) ==
  IF i > Len(events) THEN [valid |-> TRUE, brokenAtVersion |-> 0]
  ELSE IF events[i].hash # computeEventHash(events[i].type, events[i].data,
                                            events[i].previousHash, events[i].occurredAt)
         THEN [valid |-> FALSE, brokenAtVersion |-> events[i].version]
         ELSE VerifyHashesOnly(events, i + 1)

\* the loop of verifyHashChain from index i (1-based); brokenAtVersion 0 stands for absent
RECURSIVE VerifyFrom(_, _)
VerifyFrom(events, i) ==
  IF i > Len(events) THEN [valid |-> TRUE, brokenAtVersion |-> 0]
  ELSE LET event == events[i]
           expectedPreviousHash == IF i = 1 THEN NullHash ELSE events[i - 1].hash
       IN IF event.previousHash # expectedPreviousHash
            THEN [valid |-> FALSE, brokenAtVersion |-> event.version]
            ELSE IF event.hash # computeEventHash(event.type, event.data,
                                                  event.previousHash, event.occurredAt)
                   THEN [valid |-> FALSE, brokenAtVersion |-> event.version]
                   ELSE VerifyFrom(events, i + 1)

verifyHashChain(aggregateId, aggregateType) ==
  VerifyFrom(getEventsByAggregate(eventLog, aggregateId, aggregateType), 1)

(***************************************************************************)
(* Tampering: the stored data of one row is changed in the database,       *)
(* without going through appendEvent.                                      *)
(***************************************************************************)
TamperData == {JObj(<< <<"a", JNum(2)>> >>)}

Tamper(row, d) ==
  /\ tampered = {}
  /\ row \in eventLog
  /\ JsonbRoundTrip(d) # row.data
  /\ eventLog' = (eventLog \ {row}) \cup {[row EXCEPT !.data = JsonbRoundTrip(d)]}
  /\ tampered' = {[aggregateId |-> row.aggregateId, aggregateType |-> row.aggregateType,
                   version |-> row.version]}
  /\ UNCHANGED <<appender, clock>>
  /\ UNCHANGED exceptLedger

NextTamper ==
  \/ NextLedger
  \/ \E row \in eventLog, d \in TamperData : Tamper(row, d)

\* one stored row that is not the last of its aggregate is deleted in the database
Remove(row) ==
  /\ tampered = {}
  /\ row \in eventLog
  /\ \E later \in RowsOf(eventLog, row.aggregateId, row.aggregateType) :
       later.version > row.version
  /\ eventLog' = eventLog \ {row}
  /\ tampered' = {[aggregateId |-> row.aggregateId, aggregateType |-> row.aggregateType,
                   version |-> row.version]}
  /\ UNCHANGED <<appender, clock>>
  /\ UNCHANGED exceptLedger

NextRemove ==
  \/ NextLedger
  \/ \E row \in eventLog : Remove(row)

(***************************************************************************)
(* Idempotency gate: the middleware in front of the write routes           *)
(***************************************************************************)
ReqIds == 1..NumRequests

isWriteMethod(method) == method \in {"POST", "PUT", "PATCH", "DELETE"}

\* String.prototype.trim() on the header values that occur
Trim(h) == CASE h = " k1 " -> "k1" [] h = " " -> "" [] OTHER -> h

\* the key of the record; actor is what actorOf finds for the request
getStoreKey(actor, method, cleanPath, idempotencyKey) ==
  "idemp:v1:" \o actor \o ":" \o method \o ":" \o cleanPath \o ":" \o idempotencyKey

hashRequestBody(body) == Sha256Hex(stableStringify(body))

\* req.user as the gate finds it: app.use(idempotency) runs before the routers, and
\* authenticate, which sets req.user, runs inside the routes
reqUser(s) == ""

\* req.user?.userId ?? req.ip ?? 'anonymous'
actorOf(s) ==
  IF reqUser(s) # "" THEN reqUser(s) ELSE IF s.ip # "" THEN s.ip ELSE "anonymous"

\* the requests that may arrive: principal (whose token the request carries), address,
\* method, path, Idempotency-Key header, body
RequestShapes ==
  { [principal |-> "u1", ip |-> "ip1", method |-> "POST", path |-> "/orders", header |-> "k1",
     body |-> JObj(<< <<"a", JNum(1)>>, <<"b", JStr("x")>> >>)],
    [principal |-> "u1", ip |-> "ip1", method |-> "POST", path |-> "/orders", header |-> " k1 ",
     body |-> JObj(<< <<"b", JStr("x")>>, <<"a", JNum(1)>> >>)],
    [principal |-> "u1", ip |-> "ip1", method |-> "POST", path |-> "/orders", header |-> "k1",
     body |-> JObj(<< <<"a", JNum(2)>> >>)],
    [principal |-> "u2", ip |-> "ip2", method |-> "POST", path |-> "/orders", header |-> "k1",
     body |-> JObj(<< <<"a", JNum(1)>>, <<"b", JStr("x")>> >>)],
    [principal |-> "u1", ip |-> "ip1", method |-> "GET", path |-> "/orders", header |-> "k1",
     body |-> JNull],
    [principal |-> "u1", ip |-> "ip1", method |-> "POST", path |-> "/orders", header |-> " ",
     body |-> JObj(<< <<"a", JNum(1)>>, <<"b", JStr("x")>> >>)] }

\* two principals behind one address, and one of them at another address as well
PrincipalShapes ==
  { [principal |-> "u1", ip |-> "ip1", method |-> "POST", path |-> "/orders", header |-> "k1",
     body |-> JObj(<< <<"a", JNum(1)>>, <<"b", JStr("x")>> >>)],
    [principal |-> "u2", ip |-> "ip1", method |-> "POST", path |-> "/orders", header |-> "k1",
     body |-> JObj(<< <<"a", JNum(1)>>, <<"b", JStr("x")>> >>)],
    [principal |-> "u2", ip |-> "ip1", method |-> "POST", path |-> "/orders", header |-> "k1",
     body |-> JObj(<< <<"a", JNum(2)>> >>)],
    [principal |-> "u2", ip |-> "ip2", method |-> "POST", path |-> "/orders", header |-> "k1",
     body |-> JObj(<< <<"a", JNum(1)>>, <<"b", JStr("x")>> >>)] }

StoreKeys ==
  {getStoreKey(actorOf(s), s.method, s.path, Trim(s.header)) : s \in RequestShapes \cup PrincipalShapes}

\* a response without a body (res.end()), which is not the JSON value null
NoBody == [k |-> "undefined", s |-> "", n |-> 0, items |-> <<>>]

DuplicateInProgress == JObj(<< <<"error", JStr("Duplicate request in progress")>> >>)
KeyReuse == JObj(<< <<"error", JStr("Idempotency key reuse with different request body")>> >>)

\* what the command of request r may answer: created, no content, or a client error
Outcomes(r) ==
  { [statusCode |-> 201, body |-> JObj(<< <<"b", JStr("made")>>, <<"a", JNum(r)>> >>)],
    [statusCode |-> 204, body |-> NoBody],
    [statusCode |-> 400, body |-> JObj(<< <<"error", JStr("bad")>> >>)] }

\* JSON.parse on the bodies that are stored
JsonValues == ({JNull} \cup {o.body : o \in UNION {Outcomes(r) : r \in ReqIds}}) \ {NoBody}
JSONParse(raw) == CHOOSE value \in JsonValues : JSONStringify(value) = raw

\* a key without a record; statusCode 0 stands for null
NoEntry == [state |-> "none", requestHash |-> "", statusCode |-> 0, body |-> "null", ttl |-> 0]

\* an in_flight record stored without EX: it has no time to live
inFlightEntryForever(requestHash) ==
  [state |-> "in_flight", requestHash |-> requestHash, statusCode |-> 0,
   body |-> JSONStringify(JNull), ttl |-> 0]

inFlightEntry(requestHash) ==
  [state |-> "in_flight", requestHash |-> requestHash, statusCode |-> 0,
   body |-> JSONStringify(JNull), ttl |-> IN_FLIGHT_TTL_SEC]

doneEntry(requestHash, statusCode, responseBody) ==
  [state |-> "done", requestHash |-> requestHash, statusCode |-> statusCode,
   body |-> JSONStringify(IF responseBody = NoBody THEN JNull ELSE responseBody),
   ttl |-> REPLAY_TTL_SEC]

None == [requestHash |-> "", statusCode |-> 0, body |-> NoBody]

NoRequest ==
  [pc |-> "idle", principal |-> "", key |-> "", requestHash |-> "", handler |-> FALSE,
   executed |-> FALSE,
   statusCode |-> 0, body |-> NoBody, replay |-> FALSE,
   seen |-> NoEntry,    \* the record the gate read with GET
   owed |-> None,       \* the finalised result that was in force when the request arrived
   late |-> FALSE,      \* the command started after a finalisation of its key
   failed |-> FALSE,    \* a store operation of the gate failed for this request
   superseded |-> FALSE] \* a later request was admitted under the key while this one ran

InitIdem ==
  /\ idemStore = [k \in StoreKeys |-> NoEntry]
  /\ request = [r \in ReqIds |-> NoRequest]
  /\ finalised = [k \in StoreKeys |-> None]

\* next(): the command runs; handler tells whether the finish handler is registered
Execute(q, handler) ==
  [q EXCEPT !.pc = "executing", !.handler = handler, !.executed = TRUE,
            !.late = (q.key # "" /\ finalised[q.key] # None)]

\* the gate answers the request itself
Answer(q, statusCode, body, replay) ==
  [q EXCEPT !.pc = "answered", !.statusCode = statusCode, !.body = body, !.replay = replay]

\* a gate that refuses the request when the store fails
RejectOnStoreError(q) ==
  [q EXCEPT !.pc = "answered", !.statusCode = 503, !.failed = TRUE]
\* catch (err): the warning is logged, next() runs the command, no finish handler
OnStoreError(q) == [Execute(q, FALSE) EXCEPT !.failed = TRUE]

\* set(key, inFlightEntry, 'EX', IN_FLIGHT_TTL_SEC, 'NX') is 'OK' only when the key is free
SetNXFails(existing) == existing # NoEntry

\* the request was admitted under the key and its finish handler has not run yet
Holds(q, key) == q.key = key /\ q.handler /\ q.pc \in {"executing", "finish"}

\* a request arrives: the checks before the store is used, and SET NX
Arrive(r, s) ==
  /\ request[r].pc = "idle"
  /\ LET idempotencyKey == Trim(s.header)
         key == getStoreKey(actorOf(s), s.method, s.path, idempotencyKey)
         requestHash == hashRequestBody(s.body)
         from == [request[r] EXCEPT !.principal = s.principal]
         q == [from EXCEPT !.key = key, !.requestHash = requestHash,
                 !.owed = IF finalised[key].requestHash = requestHash
                            THEN finalised[key] ELSE None]
     IN IF ~isWriteMethod(s.method) \/ idempotencyKey = ""
          THEN /\ request' = [request EXCEPT ![r] = Execute(from, FALSE)]
               /\ idemStore' = idemStore
          ELSE IF SetNXFails(idemStore[key])
                 THEN /\ request' = [request EXCEPT ![r] = [q EXCEPT !.pc = "get"]]
                      /\ idemStore' = idemStore
                 ELSE /\ request' = [p \in ReqIds |->
                           IF p = r THEN Execute(q, TRUE)
                           ELSE IF Holds(request[p], key)
                                  THEN [request[p] EXCEPT !.superseded = TRUE]
                                  ELSE request[p]]
                      /\ idemStore' = [idemStore EXCEPT ![key] = inFlightEntry(requestHash)]
  /\ UNCHANGED finalised
  /\ UNCHANGED exceptIdem

\* the fingerprint check that is skipped
SameFingerprint(existing, requestHash) == FALSE
FingerprintDiffers(existing, requestHash) == existing.requestHash # requestHash

\* the in-flight check that is skipped
NeverInFlight(existing) == FALSE
IsInFlight(existing) == existing.state = "in_flight"

\* replay of a done record; a 204 is answered without a body
Replay(q, existing) ==
  IF existing.statusCode = 204
    THEN Answer(q, 204, NoBody, TRUE)
    ELSE Answer(q, existing.statusCode, JSONParse(existing.body), TRUE)

\* SET NX was refused: GET the record and decide
Get(r) ==
  /\ request[r].pc = "get"
  /\ LET existing == idemStore[request[r].key]
         q == [request[r] EXCEPT !.seen = existing]
     IN request' = [request EXCEPT ![r] =
          IF existing = NoEntry THEN Execute(q, FALSE)
          ELSE IF FingerprintDiffers(existing, q.requestHash) THEN Answer(q, 409, KeyReuse, FALSE)
          ELSE IF IsInFlight(existing) THEN Answer(q, 409, DuplicateInProgress, FALSE)
          ELSE IF existing.state = "done" /\ existing.statusCode # 0 THEN Replay(q, existing)
          ELSE Execute(q, TRUE)]
  /\ UNCHANGED <<idemStore, finalised>>
  /\ UNCHANGED exceptIdem

\* the command answers
Respond(r, o) ==
  /\ request[r].pc = "executing"
  /\ request' = [request EXCEPT ![r].statusCode = o.statusCode, ![r].body = o.body,
                                ![r].pc = IF request[r].handler THEN "finish" ELSE "answered"]
  /\ UNCHANGED <<idemStore, finalised>>
  /\ UNCHANGED exceptIdem

\* every status taken for a success
AnyStatus(statusCode) == TRUE
\* res.statusCode >= 200 && res.statusCode < 300
IsSuccess(statusCode) == statusCode >= 200 /\ statusCode < 300

\* the finish handler: a 2xx is stored as done, anything else deletes the record
Finalise(r) ==
  /\ request[r].pc = "finish"
  /\ LET q == request[r]
     IN IF IsSuccess(q.statusCode)
          THEN /\ idemStore' = [idemStore EXCEPT ![q.key] =
                                  doneEntry(q.requestHash, q.statusCode, q.body)]
               /\ finalised' = [finalised EXCEPT ![q.key] =
                    [requestHash |-> q.requestHash, statusCode |-> q.statusCode,
                     body |-> q.body]]
          ELSE /\ idemStore' = [idemStore EXCEPT ![q.key] = NoEntry]
               /\ finalised' = finalised
  /\ request' = [p \in ReqIds |->
       IF p = r THEN [request[r] EXCEPT !.pc = "answered", !.superseded = FALSE]
       ELSE IF /\ request[p].pc = "get" /\ request[p].owed # None
               /\ request[p].key = request[r].key
               /\ IsSuccess(request[r].statusCode)
              THEN [request[p] EXCEPT !.owed = finalised'[request[r].key]]
              ELSE request[p]]
  /\ UNCHANGED exceptIdem

\* Redis drops a record whose time to live has run out
Expire(key) ==
  /\ idemStore[key] # NoEntry
  /\ idemStore[key].ttl > 0
  /\ idemStore' = [idemStore EXCEPT ![key] = NoEntry]
  /\ IF idemStore[key].state = "done"
       THEN /\ finalised' = [finalised EXCEPT ![key] = None]
            /\ request' = [r \in ReqIds |->
                 IF request[r].pc = "get" /\ request[r].key = key
                   THEN [request[r] EXCEPT !.owed = None] ELSE request[r]]
       ELSE UNCHANGED <<finalised, request>>
  /\ UNCHANGED exceptIdem

NextIdem ==
  \/ \E r \in ReqIds, s \in RequestShapes : Arrive(r, s)
  \/ \E r \in ReqIds : Get(r)
  \/ \E r \in ReqIds : \E o \in Outcomes(r) : Respond(r, o)
  \/ \E r \in ReqIds : Finalise(r)

NextIdemTTL ==
  \/ NextIdem
  \/ \E key \in StoreKeys : Expire(key)

\* requests of two principals
NextIdemShared ==
  \/ \E r \in ReqIds, s \in PrincipalShapes : Arrive(r, s)
  \/ \E r \in ReqIds : Get(r)
  \/ \E r \in ReqIds : \E o \in Outcomes(r) : Respond(r, o)
  \/ \E r \in ReqIds : Finalise(r)

\* ---- the store fails ----
\* getRedis() throws, or SET NX fails: the command was not sent, or it was carried out
\* and its reply was lost
ArriveStoreDown(r, s, applied) ==
  /\ request[r].pc = "idle"
  /\ isWriteMethod(s.method) /\ Trim(s.header) # ""
  /\ LET key == getStoreKey(actorOf(s), s.method, s.path, Trim(s.header))
         requestHash == hashRequestBody(s.body)
         q == [request[r] EXCEPT !.principal = s.principal, !.key = key,
                                 !.requestHash = requestHash]
     IN /\ request' = [request EXCEPT ![r] = OnStoreError(q)]
        /\ idemStore' = IF applied /\ ~SetNXFails(idemStore[key])
                          THEN [idemStore EXCEPT ![key] = inFlightEntry(requestHash)]
                          ELSE idemStore
  /\ UNCHANGED finalised
  /\ UNCHANGED exceptIdem

\* SET NX was refused and GET fails
GetFails(r) ==
  /\ request[r].pc = "get"
  /\ request' = [request EXCEPT ![r] = OnStoreError(request[r])]
  /\ UNCHANGED <<idemStore, finalised>>
  /\ UNCHANGED exceptIdem

\* the finish handler's SET or DEL fails: the warning is logged, the record stays
FinaliseFails(r) ==
  /\ request[r].pc = "finish"
  /\ request' = [request EXCEPT ![r].pc = "answered"]
  /\ UNCHANGED <<idemStore, finalised>>
  /\ UNCHANGED exceptIdem

NextIdemDown ==
  \/ NextIdem
  \/ \E r \in ReqIds, s \in RequestShapes, applied \in BOOLEAN : ArriveStoreDown(r, s, applied)
  \/ \E r \in ReqIds : GetFails(r)
  \/ \E r \in ReqIds : FinaliseFails(r)

(***************************************************************************)
(* Job claim registry (Redis) and the order commands                       *)
(***************************************************************************)
WorkerNames == <<"w1", "w2", "w3", "w4">>
Workers == {WorkerNames[i] : i \in 1..NumWorkers}
\* the customer and the restaurant of the order
Customer == "cu"
Restaurant == "re"
\* a cooperative admin, a direct caller of escrowService.settlePayment, and a second
\* session of worker w1
Admin == "ad"
Settler == "sy"
Session2 == "w1b"
WorkerOf(c) == IF c = Session2 THEN WorkerNames[1] ELSE c
Callers == Workers \cup {Customer, Restaurant, Admin, Settler, Session2}
OrderIds == {"o1"}

ORDER_STATUS_TRANSITIONS ==
  [created |-> {"payment_held", "cancelled"},
   payment_held |-> {"restaurant_accepted", "restaurant_rejected", "cancelled"},
   restaurant_accepted |-> {"posted_to_board", "cancelled"},
   restaurant_rejected |-> {"cancelled"},
   posted_to_board |-> {"worker_claimed", "cancelled"},
   worker_claimed |-> {"picked_up", "posted_to_board", "cancelled"},
   picked_up |-> {"delivered", "cancelled"},
   delivered |-> {"settled", "disputed"},
   settled |-> {"disputed"},
   cancelled |-> {},
   disputed |-> {"dispute_resolved"},
   dispute_resolved |-> {"settled"}]

\* a check that allows every change of status
AnyTransition(from, to) == TRUE
\* ORDER_STATUS_TRANSITIONS[from]?.includes(to) ?? false
canTransition(from, to) ==
  from \in DOMAIN ORDER_STATUS_TRANSITIONS /\ to \in ORDER_STATUS_TRANSITIONS[from]

\* no claim marker under the key; ttl 0 is a key without expiry
NoMarker == [holder |-> "", ttl |-> 0]

\* a call of a command: its position, the order row it read, what claimJob returned
NoSplit == [restaurantPayout |-> 0, workerPayout |-> 0, coopFee |-> 0, poolContribution |-> 0,
            workerDeliveryPay |-> 0, tip |-> 0]
NoCommand == [op |-> "", pc |-> "idle", orderId |-> "", seen |-> [status |-> "", workerId |-> ""],
              claimed |-> FALSE, result |-> "",
              workerId |-> "",       \* the worker of the order row settlePayment read
              split |-> NoSplit,     \* the payout numbers settlePayment computed
              poolBalance |-> 0,     \* the pool balance settlePayment read back
              settled |-> FALSE,     \* settlePayment has returned its payout numbers
              resolution |-> "",     \* the resolution resolveDispute was called with
              proposalId |-> "",     \* the proposal executeProposal was called with
              repeated |-> FALSE,    \* claimJob is called again after it returned true
              dailyMinimum |-> 0,    \* what getDailyMinimum returned to settleDailyMinimums
              unsettled |-> <<>>,    \* the unsettled rows it selected, those still to visit
              remainingBalance |-> 0,\* its running copy of the pool balance
              topups |-> <<>>,       \* the top-ups it has decided
              \* the governed rates when settlePayment was called
              rates |-> [pool_contribution_rate |-> 0, infra_fee_rate |-> 0]]

\* before the order is created: no row in orders, no escrow record, no event
InitNoOrder ==
  /\ order = [o \in OrderIds |-> [status |-> "", workerId |-> ""]]
  /\ escrow = [o \in OrderIds |-> ""]
  /\ jobBoard = {}
  /\ jobDetail = {}
  /\ claimMarker = [o \in OrderIds |-> NoMarker]
  /\ call = [c \in Callers |-> NoCommand]
  /\ emitted = <<>>
  /\ commands = 0

\* an order that was created and whose payment is held
InitOrder ==
  /\ order = [o \in OrderIds |-> [status |-> "payment_held", workerId |-> ""]]
  /\ escrow = [o \in OrderIds |-> "authorized"]
  /\ jobBoard = {}
  /\ jobDetail = {}
  /\ claimMarker = [o \in OrderIds |-> NoMarker]
  /\ call = [c \in Callers |-> NoCommand]
  /\ emitted = <<"order.created", "payment.authorized", "order.payment_held">>
  /\ commands = 0

\* the same order after the restaurant accepted it and it was posted to the board
InitPosted ==
  /\ order = [o \in OrderIds |-> [status |-> "posted_to_board", workerId |-> ""]]
  /\ escrow = [o \in OrderIds |-> "authorized"]
  /\ jobBoard = OrderIds
  /\ jobDetail = OrderIds
  /\ claimMarker = [o \in OrderIds |-> NoMarker]
  /\ call = [c \in Callers |-> NoCommand]
  /\ emitted = <<"order.created", "payment.authorized", "order.payment_held",
                 "order.restaurant_accepted", "order.posted_to_board">>
  /\ commands = 0

\* zrangebyscore of the board, then the detail of each id: ids without detail are skipped
getAvailableJobs == {o \in jobBoard : o \in jobDetail}

\* a command is called by c: at most MaxCommands calls are made
Begin(c, op, orderId, pc) ==
  [NoCommand EXCEPT !.op = op, !.orderId = orderId, !.pc = pc, !.seen = order[orderId]]
Idle(c) == call[c].pc \in {"idle", "done"} /\ commands < MaxCommands
Fail(cmd, error) == [cmd EXCEPT !.pc = "done", !.result = error]
Goto(c, pc) == call' = [call EXCEPT ![c].pc = pc]
At(c, pc) == call[c].pc = pc

\* ---- jobBoardService.claimJob ----
\* setnx on a key that holds a value anyway
AlwaysFree(marker) == TRUE
\* setnx(claimKey, workerId) sets the key only when it is absent
MarkerFree(marker) == marker.holder = ""

\* workerClaim going on whatever claimJob returned
ClaimReturnedUnchecked(cmd, claimed) ==
  IF cmd.op = "claimJob"
    THEN [cmd EXCEPT !.pc = "returned", !.claimed = claimed]
    ELSE [cmd EXCEPT !.pc = "claim.update", !.claimed = claimed]

\* claimJob has returned: to its caller, or into workerClaim
ClaimReturned(cmd, claimed) ==
  IF cmd.op = "claimJob"
    THEN [cmd EXCEPT !.pc = "returned", !.claimed = claimed]
    ELSE IF claimed THEN [cmd EXCEPT !.pc = "claim.update", !.claimed = TRUE]
         ELSE Fail(cmd, "Job already claimed by another worker")

\* claimJob is called on its own by worker c
CallClaimJob(c, o) ==
  /\ call[c].pc = "idle"
  /\ call' = [call EXCEPT ![c] = Begin(c, "claimJob", o, "claim.setnx")]
  /\ UNCHANGED <<order, escrow, jobBoard, jobDetail, claimMarker, emitted, commands>>
  /\ UNCHANGED exceptOrder

ClaimSetnx(c) ==
  /\ At(c, "claim.setnx")
  /\ LET o == call[c].orderId
     IN IF MarkerFree(claimMarker[o])
          THEN /\ claimMarker' = [claimMarker EXCEPT ![o] = [holder |-> c, ttl |-> 0]]
               /\ Goto(c, "claim.expire")
          ELSE /\ claimMarker' = claimMarker
               /\ Goto(c, "claim.get")
  /\ UNCHANGED <<order, escrow, jobBoard, jobDetail, emitted, commands>>
  /\ UNCHANGED exceptOrder

\* a comparison that never finds the caller's own id
NeverOwnClaim(existingClaimer, workerId) == FALSE
\* existingClaimer === workerId
IsOwnClaim(existingClaimer, workerId) == existingClaimer = workerId

\* the loser reads the marker: true only if it holds the caller's own id
ClaimGet(c) ==
  /\ At(c, "claim.get")
  /\ call' = [call EXCEPT ![c] =
       ClaimReturned(call[c], IsOwnClaim(claimMarker[call[c].orderId].holder, c))]
  /\ UNCHANGED <<order, escrow, jobBoard, jobDetail, claimMarker, emitted, commands>>
  /\ UNCHANGED exceptOrder

\* expire(claimKey, 3600): nothing happens when the key is gone
ClaimExpire(c) ==
  /\ At(c, "claim.expire")
  /\ LET o == call[c].orderId
     IN claimMarker' = IF claimMarker[o] = NoMarker THEN claimMarker
                       ELSE [claimMarker EXCEPT ![o].ttl = CLAIM_TTL_SEC]
  /\ Goto(c, "claim.zrem")
  /\ UNCHANGED <<order, escrow, jobBoard, jobDetail, emitted, commands>>
  /\ UNCHANGED exceptOrder

ClaimZrem(c) ==
  /\ At(c, "claim.zrem")
  /\ jobBoard' = jobBoard \ {call[c].orderId}
  /\ Goto(c, "claim.del")
  /\ UNCHANGED <<order, escrow, jobDetail, claimMarker, emitted, commands>>
  /\ UNCHANGED exceptOrder

ClaimDel(c) ==
  /\ At(c, "claim.del")
  /\ jobDetail' = jobDetail \ {call[c].orderId}
  /\ call' = [call EXCEPT ![c] = ClaimReturned(call[c], TRUE)]
  /\ UNCHANGED <<order, escrow, jobBoard, claimMarker, emitted, commands>>
  /\ UNCHANGED exceptOrder

\* the worker whose claimJob returned true calls it again for the same order
ClaimAgain(c) ==
  /\ call[c].op = "claimJob" /\ call[c].pc = "returned" /\ call[c].claimed
  /\ commands < MaxCommands
  /\ commands' = commands + 1
  /\ call' = [call EXCEPT ![c] =
       [Begin(c, "claimJob", call[c].orderId, "claim.setnx") EXCEPT !.repeated = TRUE]]
  /\ UNCHANGED <<order, escrow, jobBoard, jobDetail, claimMarker, emitted>>
  /\ UNCHANGED exceptOrder

NextBoard ==
  \/ \E c \in Workers, o \in OrderIds : CallClaimJob(c, o)
  \/ \E c \in Workers : ClaimSetnx(c)
  \/ \E c \in Workers : ClaimGet(c)
  \/ \E c \in Workers : ClaimExpire(c)
  \/ \E c \in Workers : ClaimZrem(c)
  \/ \E c \in Workers : ClaimDel(c)

\* Redis drops a claim marker whose time to live has run out; a key without a time
\* to live is never dropped
MarkerExpire(o) ==
  /\ claimMarker[o] # NoMarker
  /\ claimMarker[o].ttl > 0
  /\ claimMarker' = [claimMarker EXCEPT ![o] = NoMarker]
  /\ UNCHANGED <<order, escrow, jobBoard, jobDetail, call, emitted, commands>>
  /\ UNCHANGED exceptOrder

NextBoardRetry ==
  \/ NextBoard
  \/ \E c \in Workers : ClaimAgain(c)

NextBoardTTL ==
  \/ NextBoard
  \/ \E o \in OrderIds : MarkerExpire(o)

\* ---- the order commands ----
\* an emit that appends nothing
EmitNothing(type) == emitted' = emitted
Emit(type) == emitted' = Append(emitted, type)

\* restaurantAccept: getOrder and the checks
AcceptStart(c, o) ==
  /\ Idle(c)
  /\ commands' = commands + 1
  /\ call' = [call EXCEPT ![c] =
       IF canTransition(order[o].status, "restaurant_accepted")
         THEN Begin(c, "restaurantAccept", o, "accept.update")
         ELSE Fail(Begin(c, "restaurantAccept", o, "idle"), "Cannot accept order")]
  /\ UNCHANGED <<order, escrow, jobBoard, jobDetail, claimMarker, emitted>>
  /\ UNCHANGED exceptOrder

AcceptUpdate(c) ==
  /\ At(c, "accept.update")
  /\ order' = [order EXCEPT ![call[c].orderId].status = "restaurant_accepted"]
  /\ Goto(c, "accept.emit")
  /\ UNCHANGED <<escrow, jobBoard, jobDetail, claimMarker, emitted, commands>>
  /\ UNCHANGED exceptOrder

\* the event, then postToJobBoard reads the order (it checks no status)
AcceptEmit(c) ==
  /\ At(c, "accept.emit")
  /\ Emit("order.restaurant_accepted")
  /\ Goto(c, "post.update")
  /\ UNCHANGED <<order, escrow, jobBoard, jobDetail, claimMarker, commands>>
  /\ UNCHANGED exceptOrder

PostUpdate(c) ==
  /\ At(c, "post.update")
  /\ order' = [order EXCEPT ![call[c].orderId].status = "posted_to_board"]
  /\ Goto(c, "post.zadd")
  /\ UNCHANGED <<escrow, jobBoard, jobDetail, claimMarker, emitted, commands>>
  /\ UNCHANGED exceptOrder

\* postJob: zadd
PostZadd(c) ==
  /\ At(c, "post.zadd")
  /\ jobBoard' = jobBoard \cup {call[c].orderId}
  /\ Goto(c, "post.set")
  /\ UNCHANGED <<order, escrow, jobDetail, claimMarker, emitted, commands>>
  /\ UNCHANGED exceptOrder

\* postJob: set of the job detail
PostSet(c) ==
  /\ At(c, "post.set")
  /\ jobDetail' = jobDetail \cup {call[c].orderId}
  /\ Goto(c, "post.emit")
  /\ UNCHANGED <<order, escrow, jobBoard, claimMarker, emitted, commands>>
  /\ UNCHANGED exceptOrder

PostEmit(c) ==
  /\ At(c, "post.emit")
  /\ Emit("order.posted_to_board")
  /\ call' = [call EXCEPT ![c].pc = "done", ![c].result = "ok"]
  /\ UNCHANGED <<order, escrow, jobBoard, jobDetail, claimMarker, commands>>
  /\ UNCHANGED exceptOrder

\* restaurantReject: getOrder and the checks
RejectStart(c, o) ==
  /\ Idle(c)
  /\ commands' = commands + 1
  /\ call' = [call EXCEPT ![c] =
       IF canTransition(order[o].status, "restaurant_rejected")
         THEN Begin(c, "restaurantReject", o, "reject.update")
         ELSE Fail(Begin(c, "restaurantReject", o, "idle"), "Cannot reject order")]
  /\ UNCHANGED <<order, escrow, jobBoard, jobDetail, claimMarker, emitted>>
  /\ UNCHANGED exceptOrder

\* the rejected order is stored as cancelled
RejectUpdate(c) ==
  /\ At(c, "reject.update")
  /\ order' = [order EXCEPT ![call[c].orderId].status = "cancelled"]
  /\ Goto(c, "refund.read")
  /\ UNCHANGED <<escrow, jobBoard, jobDetail, claimMarker, emitted, commands>>
  /\ UNCHANGED exceptOrder

\* refundPayment: the escrow record is read; an escrow already refunded is left alone
RefundRead(c) ==
  /\ At(c, "refund.read")
  /\ Goto(c, IF escrow[call[c].orderId] = "refunded" THEN "final.emit" ELSE "refund.update")
  /\ UNCHANGED <<order, escrow, jobBoard, jobDetail, claimMarker, emitted, commands>>
  /\ UNCHANGED exceptOrder

RefundUpdate(c) ==
  /\ At(c, "refund.update")
  /\ escrow' = [escrow EXCEPT ![call[c].orderId] = "refunded"]
  /\ Goto(c, "refund.emit")
  /\ UNCHANGED <<order, jobBoard, jobDetail, claimMarker, emitted, commands>>
  /\ UNCHANGED exceptOrder

RefundEmit(c) ==
  /\ At(c, "refund.emit")
  /\ Emit("payment.refunded")
  /\ Goto(c, "final.emit")
  /\ UNCHANGED <<order, escrow, jobBoard, jobDetail, claimMarker, commands>>
  /\ UNCHANGED exceptOrder

\* the event that ends restaurantReject and cancelOrder
FinalEmit(c) ==
  /\ At(c, "final.emit")
  /\ Emit(IF call[c].op = "restaurantReject" THEN "order.restaurant_rejected"
          ELSE IF call[c].op = "resolveDispute" THEN "order.dispute_resolved"
          ELSE "order.cancelled")
  /\ call' = [call EXCEPT ![c].pc = "done", ![c].result = "ok"]
  /\ UNCHANGED <<order, escrow, jobBoard, jobDetail, claimMarker, commands>>
  /\ UNCHANGED exceptOrder

\* workerClaim: getOrder and the check of the status, then claimJob
WorkerClaimStart(c, o) ==
  /\ Idle(c)
  /\ commands' = commands + 1
  /\ call' = [call EXCEPT ![c] =
       IF canTransition(order[o].status, "worker_claimed")
         THEN Begin(c, "workerClaim", o, "claim.setnx")
         ELSE Fail(Begin(c, "workerClaim", o, "idle"), "Cannot claim order")]
  /\ UNCHANGED <<order, escrow, jobBoard, jobDetail, claimMarker, emitted>>
  /\ UNCHANGED exceptOrder

WorkerClaimUpdate(c) ==
  /\ At(c, "claim.update")
  /\ order' = [order EXCEPT ![call[c].orderId] = [status |-> "worker_claimed", workerId |-> c]]
  /\ Goto(c, "claim.emit")
  /\ UNCHANGED <<escrow, jobBoard, jobDetail, claimMarker, emitted, commands>>
  /\ UNCHANGED exceptOrder

\* the event, and workerClaim returns { orderId, status: 'worker_claimed', workerId }
WorkerClaimEmit(c) ==
  /\ At(c, "claim.emit")
  /\ Emit("order.worker_claimed")
  /\ call' = [call EXCEPT ![c].pc = "done", ![c].result = "ok"]
  /\ UNCHANGED <<order, escrow, jobBoard, jobDetail, claimMarker, commands>>
  /\ UNCHANGED exceptOrder

\* workerPickup: getOrder and the checks
PickupStart(c, o) ==
  /\ Idle(c)
  /\ commands' = commands + 1
  /\ call' = [call EXCEPT ![c] =
       IF order[o].workerId # c
         THEN Fail(Begin(c, "workerPickup", o, "idle"), "Not assigned to this worker")
         ELSE IF canTransition(order[o].status, "picked_up")
                THEN Begin(c, "workerPickup", o, "pickup.update")
                ELSE Fail(Begin(c, "workerPickup", o, "idle"), "Cannot pick up order")]
  /\ UNCHANGED <<order, escrow, jobBoard, jobDetail, claimMarker, emitted>>
  /\ UNCHANGED exceptOrder

PickupUpdate(c) ==
  /\ At(c, "pickup.update")
  /\ order' = [order EXCEPT ![call[c].orderId].status = "picked_up"]
  /\ Goto(c, "pickup.emit")
  /\ UNCHANGED <<escrow, jobBoard, jobDetail, claimMarker, emitted, commands>>
  /\ UNCHANGED exceptOrder

PickupEmit(c) ==
  /\ At(c, "pickup.emit")
  /\ Emit("order.picked_up")
  /\ call' = [call EXCEPT ![c].pc = "done", ![c].result = "ok"]
  /\ UNCHANGED <<order, escrow, jobBoard, jobDetail, claimMarker, commands>>
  /\ UNCHANGED exceptOrder

\* cancelOrder by the customer: getOrder and the checks; the job is removed from the
\* board only when the order that was read has a worker
CancelStart(c, o) ==
  /\ Idle(c)
  /\ commands' = commands + 1
  /\ call' = [call EXCEPT ![c] =
       IF canTransition(order[o].status, "cancelled")
         THEN Begin(c, "cancelOrder", o,
                    IF order[o].workerId # "" THEN "remove.zrem" ELSE "cancel.update")
         ELSE Fail(Begin(c, "cancelOrder", o, "idle"), "Cannot cancel order")]
  /\ UNCHANGED <<order, escrow, jobBoard, jobDetail, claimMarker, emitted>>
  /\ UNCHANGED exceptOrder

\* removeJob: zrem
RemoveZrem(c) ==
  /\ At(c, "remove.zrem")
  /\ jobBoard' = jobBoard \ {call[c].orderId}
  /\ Goto(c, "remove.detail")
  /\ UNCHANGED <<order, escrow, jobDetail, claimMarker, emitted, commands>>
  /\ UNCHANGED exceptOrder

\* removeJob: del of the job detail
RemoveDetail(c) ==
  /\ At(c, "remove.detail")
  /\ jobDetail' = jobDetail \ {call[c].orderId}
  /\ Goto(c, "remove.claim")
  /\ UNCHANGED <<order, escrow, jobBoard, claimMarker, emitted, commands>>
  /\ UNCHANGED exceptOrder

\* removeJob: del of the claim marker
RemoveClaim(c) ==
  /\ At(c, "remove.claim")
  /\ claimMarker' = [claimMarker EXCEPT ![call[c].orderId] = NoMarker]
  /\ Goto(c, "cancel.update")
  /\ UNCHANGED <<order, escrow, jobBoard, jobDetail, emitted, commands>>
  /\ UNCHANGED exceptOrder

\* the order is stored as cancelled; the payment is refunded unless the order that was
\* read was still in status created
CancelUpdate(c) ==
  /\ At(c, "cancel.update")
  /\ order' = [order EXCEPT ![call[c].orderId].status = "cancelled"]
  /\ Goto(c, IF call[c].seen.status # "created" THEN "refund.read" ELSE "final.emit")
  /\ UNCHANGED <<escrow, jobBoard, jobDetail, claimMarker, emitted, commands>>
  /\ UNCHANGED exceptOrder

\* ---- createOrder ----
\* the row is inserted with status created
CreateInsert(c, o) ==
  /\ Idle(c)
  /\ order[o].status = ""
  /\ commands' = commands + 1
  /\ order' = [order EXCEPT ![o] = [status |-> "created", workerId |-> ""]]
  /\ call' = [call EXCEPT ![c] = Begin(c, "createOrder", o, "create.emit1")]
  /\ UNCHANGED <<escrow, jobBoard, jobDetail, claimMarker, emitted>>
  /\ UNCHANGED exceptOrder

CreateEvents == <<"order.created", "payment.authorized", "order.payment_held">>
CreateEmitPcs == <<"create.emit1", "create.emit2", "create.emit3">>
CreateAfterEmit == <<"create.hold", "create.update", "done">>

\* the three events of createOrder: after the insert, in holdPayment, after the update
CreateEmit(c) ==
  /\ \E i \in 1..Len(CreateEvents) :
       /\ At(c, CreateEmitPcs[i])
       /\ Emit(CreateEvents[i])
       /\ call' = [call EXCEPT ![c].pc = CreateAfterEmit[i],
                               ![c].result = IF i = Len(CreateEvents) THEN "ok" ELSE ""]
  /\ UNCHANGED <<order, escrow, jobBoard, jobDetail, claimMarker, commands>>
  /\ UNCHANGED exceptOrder

\* holdPayment: the escrow record is inserted with status authorized
CreateHold(c) ==
  /\ At(c, "create.hold")
  /\ escrow' = [escrow EXCEPT ![call[c].orderId] = "authorized"]
  /\ Goto(c, "create.emit2")
  /\ UNCHANGED <<order, jobBoard, jobDetail, claimMarker, emitted, commands>>
  /\ UNCHANGED exceptOrder

CreateUpdate(c) ==
  /\ At(c, "create.update")
  /\ order' = [order EXCEPT ![call[c].orderId].status = "payment_held"]
  /\ Goto(c, "create.emit3")
  /\ UNCHANGED <<escrow, jobBoard, jobDetail, claimMarker, emitted, commands>>
  /\ UNCHANGED exceptOrder

NextCreate ==
  \/ \E o \in OrderIds : CreateInsert(Customer, o)
  \/ CreateEmit(Customer)
  \/ CreateHold(Customer)
  \/ CreateUpdate(Customer)

NextOrder ==
  \/ \E o \in OrderIds : AcceptStart(Restaurant, o)
  \/ AcceptUpdate(Restaurant)
  \/ AcceptEmit(Restaurant)
  \/ PostUpdate(Restaurant)
  \/ PostZadd(Restaurant)
  \/ PostSet(Restaurant)
  \/ PostEmit(Restaurant)
  \/ \E o \in OrderIds : RejectStart(Restaurant, o)
  \/ RejectUpdate(Restaurant)
  \/ \E c \in {Customer, Restaurant} : RefundRead(c)
  \/ \E c \in {Customer, Restaurant} : RefundUpdate(c)
  \/ \E c \in {Customer, Restaurant} : RefundEmit(c)
  \/ \E c \in {Customer, Restaurant} : FinalEmit(c)
  \/ \E c \in Workers, o \in OrderIds : WorkerClaimStart(c, o)
  \/ \E c \in Workers : ClaimSetnx(c)
  \/ \E c \in Workers : ClaimGet(c)
  \/ \E c \in Workers : ClaimExpire(c)
  \/ \E c \in Workers : ClaimZrem(c)
  \/ \E c \in Workers : ClaimDel(c)
  \/ \E c \in Workers : WorkerClaimUpdate(c)
  \/ \E c \in Workers : WorkerClaimEmit(c)
  \/ \E c \in Workers, o \in OrderIds : PickupStart(c, o)
  \/ \E c \in Workers : PickupUpdate(c)
  \/ \E c \in Workers : PickupEmit(c)
  \/ \E o \in OrderIds : CancelStart(Customer, o)
  \/ RemoveZrem(Customer)
  \/ RemoveDetail(Customer)
  \/ RemoveClaim(Customer)
  \/ CancelUpdate(Customer)

\* ---- the append of a command's event fails ----
\* where a command awaits eventBus.emit
EmitPcs == {"accept.emit", "post.emit", "refund.emit", "final.emit", "claim.emit",
            "pickup.emit"}
\* what appendEvent throws: the conflict of its last attempt, or another store error
AppendErrors == {"conflict", "store"}

\* a command that goes on as if the event had been stored
SwallowAppendError(cmd, error) == [cmd EXCEPT !.pc = "done", !.result = "ok"]
\* appendEvent throws, emit and the command do not catch: the caller gets the error
OnAppendError(cmd, error) == Fail(cmd, error)

EmitFails(c, error) ==
  /\ call[c].pc \in EmitPcs
  /\ call' = [call EXCEPT ![c] = OnAppendError(call[c], error)]
  /\ UNCHANGED <<order, escrow, jobBoard, jobDetail, claimMarker, emitted, commands>>
  /\ UNCHANGED exceptOrder

NextAppendFail ==
  \/ NextOrder
  \/ \E c \in Callers, error \in AppendErrors : EmitFails(c, error)

(***************************************************************************)
(* Settlement (escrowService.settlePayment), confirmDelivery, disputes     *)
(***************************************************************************)
Fees == 1..MaxFee
Tips == 0..MaxTip
Subtotals == {250}
\* the amounts of an order whose fee and tip are the largest of the model
LargestAmounts == [subtotal |-> 250, deliveryFee |-> MaxFee, tip |-> MaxTip]

NoPayout == [restaurantPayout |-> 0, workerPayout |-> 0, coopFee |-> 0, poolContribution |-> 0]
\* no row of the worker for today; a row has deliveriesCompleted >= 1
NoEarnings == [deliveriesCompleted |-> 0, deliveryFees |-> 0, tips |-> 0, totalEarnings |-> 0,
               poolTopup |-> 0, isSettled |-> FALSE]
NoDispute == [status |-> "none", resolution |-> ""]
\* two of the VALID_RESOLUTIONS: the one that refunds and one that does not
Resolutions == {"full_refund", "no_refund"}

\* ---- governance: the governed parameters and the proposals that change them ----
ProposalIds == {"p1", "p2", "p3"}

\* system_parameters with the defaults of its columns; two proposals that have passed
\* their vote and one that is still open
InitGovern ==
  /\ systemParameters = [pool_contribution_rate |-> 10, infra_fee_rate |-> 10]
  /\ proposals =
       [p \in ProposalIds |->
          CASE p = "p1" -> [status |-> "passed", parameter |-> "pool_contribution_rate",
                           proposedValue |-> 20]
            [] p = "p2" -> [status |-> "passed", parameter |-> "infra_fee_rate",
                           proposedValue |-> 5]
            [] OTHER -> [status |-> "active", parameter |-> "pool_contribution_rate",
                        proposedValue |-> 30]]

\* executeProposal: getProposal and the checks
ExecuteStart(c, p) ==
  /\ call[c].pc \in {"idle", "done"} /\ commands < MaxCommands
  /\ commands' = commands + 1
  /\ call' = [call EXCEPT ![c] =
       LET cmd == [NoCommand EXCEPT !.op = "executeProposal", !.proposalId = p]
       IN IF proposals[p].status # "passed"
            THEN [cmd EXCEPT !.pc = "done", !.result = "Proposal has not passed"]
            ELSE [cmd EXCEPT !.pc = "exec.params"]]
  /\ UNCHANGED <<order, escrow, jobBoard, jobDetail, claimMarker, emitted>>
  /\ UNCHANGED <<exceptOrder, governVars>>

\* UPDATE system_parameters SET <parameter> = proposedValue WHERE id = 1
ExecuteParamsUpdate(c) ==
  /\ call[c].pc = "exec.params"
  /\ LET change == proposals[call[c].proposalId]
     IN systemParameters' =
          [systemParameters EXCEPT ![change.parameter] = change.proposedValue]
  /\ call' = [call EXCEPT ![c].pc = "exec.proposal"]
  /\ UNCHANGED <<order, escrow, jobBoard, jobDetail, claimMarker, emitted, commands>>
  /\ UNCHANGED <<ledgerVars, idemVars, settleVars, proposals, encoding>>

\* update of the proposal: status executed
ExecuteProposalUpdate(c) ==
  /\ call[c].pc = "exec.proposal"
  /\ proposals' = [proposals EXCEPT ![call[c].proposalId].status = "executed"]
  /\ call' = [call EXCEPT ![c].pc = "exec.emit"]
  /\ UNCHANGED <<order, escrow, jobBoard, jobDetail, claimMarker, emitted, commands>>
  /\ UNCHANGED <<ledgerVars, idemVars, settleVars, systemParameters, encoding>>

ExecuteEmit(c) ==
  /\ call[c].pc = "exec.emit"
  /\ emitted' = Append(emitted, "governance.proposal_executed")
  /\ call' = [call EXCEPT ![c].pc = "done", ![c].result = "ok"]
  /\ UNCHANGED <<order, escrow, jobBoard, jobDetail, claimMarker, commands>>
  /\ UNCHANGED <<exceptOrder, governVars>>

\* the books before any settlement: no payout stored, an empty pool, no dispute
InitBooks(a) ==
  /\ amounts = [o \in OrderIds |-> a]
  /\ payout = [o \in OrderIds |-> NoPayout]
  /\ pool = [balance |-> 0, totalContributions |-> 0, totalTopups |-> 0]
  /\ poolLedger = <<>>
  /\ dailyEarnings = [w \in Workers |-> NoEarnings]
  /\ totalDeliveries = [w \in Workers |-> 0]
  /\ dispute = [o \in OrderIds |-> NoDispute]
  /\ InitGovern

\* the order after worker w1 claimed it and picked it up
InitPickedUp ==
  /\ order = [o \in OrderIds |-> [status |-> "picked_up", workerId |-> WorkerNames[1]]]
  /\ escrow = [o \in OrderIds |-> "authorized"]
  /\ jobBoard = {}
  /\ jobDetail = {}
  /\ claimMarker = [o \in OrderIds |-> [holder |-> WorkerNames[1], ttl |-> CLAIM_TTL_SEC]]
  /\ call = [c \in Callers |-> NoCommand]
  /\ emitted = <<"order.created", "payment.authorized", "order.payment_held",
                 "order.restaurant_accepted", "order.posted_to_board",
                 "order.worker_claimed", "order.picked_up">>
  /\ commands = 0

\* the worker's delivery pay taken as its own rounded share of the fee
WorkerShareByRate(deliveryFee, poolContribution, coopFee) ==
  (deliveryFee * (100 - poolContributionRate - infraFeeRate)) \div 100
\* deliveryFee - poolContribution - coopFee
workerDeliveryPay(deliveryFee, poolContribution, coopFee) ==
  deliveryFee - poolContribution - coopFee

\* the payout numbers; Math.floor(x / 100) of a non-negative integer is x \div 100
SettlementSplit(a) ==
  LET poolContribution == (a.deliveryFee * poolContributionRate) \div 100
      coopFee == (a.deliveryFee * infraFeeRate) \div 100
      pay == workerDeliveryPay(a.deliveryFee, poolContribution, coopFee)
  IN [restaurantPayout |-> a.subtotal, workerPayout |-> pay + a.tip, coopFee |-> coopFee,
      poolContribution |-> poolContribution, workerDeliveryPay |-> pay, tip |-> a.tip]

\* settlePayment is called on its own
CallSettlePayment(c, o) ==
  /\ Idle(c)
  /\ commands' = commands + 1
  /\ call' = [call EXCEPT ![c] = [Begin(c, "settlePayment", o, "settle.order")
                                    EXCEPT !.rates = systemParameters]]
  /\ UNCHANGED <<order, escrow, jobBoard, jobDetail, claimMarker, emitted>>
  /\ UNCHANGED <<exceptSettle, settleVars>>

\* the order row is read: an order without a worker is not settled
SettleReadOrder(c) ==
  /\ At(c, "settle.order")
  /\ LET o == call[c].orderId
     IN call' = [call EXCEPT ![c] =
          IF order[o].workerId = "" THEN Fail(call[c], "No worker assigned")
          ELSE [call[c] EXCEPT !.workerId = order[o].workerId, !.pc = "settle.escrow"]]
  /\ UNCHANGED <<order, escrow, jobBoard, jobDetail, claimMarker, emitted, commands>>
  /\ UNCHANGED <<exceptSettle, settleVars>>

\* the escrow record is read: only an authorized escrow is settled; the split is computed
SettleReadEscrow(c) ==
  /\ At(c, "settle.escrow")
  /\ LET o == call[c].orderId
     IN call' = [call EXCEPT ![c] =
          IF escrow[o] # "authorized" THEN Fail(call[c], "Cannot settle escrow")
          ELSE [call[c] EXCEPT !.split = SettlementSplit(amounts[o]),
                               !.pc = "settle.escrowUpdate"]]
  /\ UNCHANGED <<order, escrow, jobBoard, jobDetail, claimMarker, emitted, commands>>
  /\ UNCHANGED <<exceptSettle, settleVars>>

\* update of the escrow record: status settled and the payout fields
SettleEscrowUpdate(c) ==
  /\ At(c, "settle.escrowUpdate")
  /\ LET o == call[c].orderId
         s == call[c].split
     IN /\ escrow' = [escrow EXCEPT ![o] = "settled"]
        /\ payout' = [payout EXCEPT ![o] =
             [restaurantPayout |-> s.restaurantPayout, workerPayout |-> s.workerPayout,
              coopFee |-> s.coopFee, poolContribution |-> s.poolContribution]]
  /\ Goto(c, "settle.orderUpdate")
  /\ UNCHANGED <<order, jobBoard, jobDetail, claimMarker, emitted, commands>>
  /\ UNCHANGED <<amounts, pool, poolLedger, dailyEarnings, totalDeliveries, dispute>>
  /\ UNCHANGED exceptSettle

\* update of the order: status settled
SettleOrderUpdate(c) ==
  /\ At(c, "settle.orderUpdate")
  /\ order' = [order EXCEPT ![call[c].orderId].status = "settled"]
  /\ Goto(c, "settle.pool")
  /\ UNCHANGED <<escrow, jobBoard, jobDetail, claimMarker, emitted, commands>>
  /\ UNCHANGED <<exceptSettle, settleVars>>

\* an update that adds to the balance alone
BalanceOnlyUpdate(row, poolContribution) ==
  [row EXCEPT !.balance = @ + poolContribution]
\* SET balance = balance + poolContribution,
\*     total_contributions = total_contributions + poolContribution
ContributionUpdate(row, poolContribution) ==
  [row EXCEPT !.balance = @ + poolContribution, !.totalContributions = @ + poolContribution]

\* UPDATE pool_state SET balance = balance + poolContribution
SettlePoolUpdate(c) ==
  /\ At(c, "settle.pool")
  /\ pool' = ContributionUpdate(pool, call[c].split.poolContribution)
  /\ Goto(c, "settle.poolSelect")
  /\ UNCHANGED <<order, escrow, jobBoard, jobDetail, claimMarker, emitted, commands>>
  /\ UNCHANGED <<amounts, payout, poolLedger, dailyEarnings, totalDeliveries, dispute>>
  /\ UNCHANGED exceptSettle

\* the pool row is read back
SettlePoolSelect(c) ==
  /\ At(c, "settle.poolSelect")
  /\ call' = [call EXCEPT ![c].poolBalance = pool.balance, ![c].pc = "settle.ledger"]
  /\ UNCHANGED <<order, escrow, jobBoard, jobDetail, claimMarker, emitted, commands>>
  /\ UNCHANGED <<exceptSettle, settleVars>>

\* insert of the contribution line into pool_ledger
SettleLedgerInsert(c) ==
  /\ At(c, "settle.ledger")
  /\ poolLedger' = Append(poolLedger,
       [transactionType |-> "contribution", amount |-> call[c].split.poolContribution,
        balanceAfter |-> call[c].poolBalance, orderId |-> call[c].orderId])
  /\ Goto(c, "settle.earnings")
  /\ UNCHANGED <<order, escrow, jobBoard, jobDetail, claimMarker, emitted, commands>>
  /\ UNCHANGED <<amounts, payout, pool, dailyEarnings, totalDeliveries, dispute>>
  /\ UNCHANGED exceptSettle

\* INSERT INTO worker_daily_earnings ... ON CONFLICT (worker_id, date) DO UPDATE
SettleEarningsUpsert(c) ==
  /\ At(c, "settle.earnings")
  /\ LET w == call[c].workerId
         s == call[c].split
         e == dailyEarnings[w]
     IN dailyEarnings' = [dailyEarnings EXCEPT ![w] =
          [e EXCEPT !.deliveriesCompleted = @ + 1,
                    !.deliveryFees = @ + s.workerDeliveryPay,
                    !.tips = @ + s.tip,
                    !.totalEarnings = @ + s.workerPayout]]
  /\ Goto(c, "settle.worker")
  /\ UNCHANGED <<order, escrow, jobBoard, jobDetail, claimMarker, emitted, commands>>
  /\ UNCHANGED <<amounts, payout, pool, poolLedger, totalDeliveries, dispute>>
  /\ UNCHANGED exceptSettle

\* UPDATE workers SET total_deliveries = total_deliveries + 1
SettleWorkerUpdate(c) ==
  /\ At(c, "settle.worker")
  /\ totalDeliveries' = [totalDeliveries EXCEPT ![call[c].workerId] = @ + 1]
  /\ Goto(c, "settle.emit1")
  /\ UNCHANGED <<order, escrow, jobBoard, jobDetail, claimMarker, emitted, commands>>
  /\ UNCHANGED <<amounts, payout, pool, poolLedger, dailyEarnings, dispute>>
  /\ UNCHANGED exceptSettle

SettleEvents == <<"order.settled", "payment.restaurant_transferred",
                  "payment.worker_transferred", "payment.pool_contribution">>
SettleEmitPcs == <<"settle.emit1", "settle.emit2", "settle.emit3", "settle.emit4">>

\* the four events, one after the other; after the last one the payout numbers are
\* returned, and confirmDelivery returns after them
SettleEmit(c) ==
  /\ \E i \in 1..Len(SettleEvents) :
       /\ At(c, SettleEmitPcs[i])
       /\ Emit(SettleEvents[i])
       /\ call' = [call EXCEPT ![c] =
            IF i < Len(SettleEvents) THEN [call[c] EXCEPT !.pc = SettleEmitPcs[i + 1]]
            ELSE [call[c] EXCEPT !.pc = "done", !.result = "ok", !.settled = TRUE]]
  /\ UNCHANGED <<order, escrow, jobBoard, jobDetail, claimMarker, commands>>
  /\ UNCHANGED <<exceptSettle, settleVars>>

\* confirmDelivery: getOrder and the checks
DeliverStart(c, o) ==
  /\ Idle(c)
  /\ commands' = commands + 1
  /\ call' = [call EXCEPT ![c] =
       IF order[o].workerId # WorkerOf(c)
         THEN Fail(Begin(c, "confirmDelivery", o, "idle"), "Not assigned to this worker")
         ELSE IF canTransition(order[o].status, "delivered")
                THEN Begin(c, "confirmDelivery", o, "deliver.update")
                ELSE Fail(Begin(c, "confirmDelivery", o, "idle"), "Cannot deliver order")]
  /\ UNCHANGED <<order, escrow, jobBoard, jobDetail, claimMarker, emitted>>
  /\ UNCHANGED <<exceptSettle, settleVars>>

DeliverUpdate(c) ==
  /\ At(c, "deliver.update")
  /\ order' = [order EXCEPT ![call[c].orderId].status = "delivered"]
  /\ Goto(c, "deliver.emit")
  /\ UNCHANGED <<escrow, jobBoard, jobDetail, claimMarker, emitted, commands>>
  /\ UNCHANGED <<exceptSettle, settleVars>>

\* the event, then settlePayment
DeliverEmit(c) ==
  /\ At(c, "deliver.emit")
  /\ Emit("order.delivered")
  /\ Goto(c, "settle.order")
  /\ UNCHANGED <<order, escrow, jobBoard, jobDetail, claimMarker, commands>>
  /\ UNCHANGED <<exceptSettle, settleVars>>

\* raiseDispute by the customer: the order is read, its status must be delivered or
\* settled, and no unresolved dispute may exist
RaiseStart(c, o) ==
  /\ Idle(c)
  /\ commands' = commands + 1
  /\ call' = [call EXCEPT ![c] =
       IF order[o].status \notin {"delivered", "settled"}
         THEN Fail(Begin(c, "raiseDispute", o, "idle"), "Cannot dispute order")
         ELSE IF dispute[o].status = "open"
                THEN Fail(Begin(c, "raiseDispute", o, "idle"), "An unresolved dispute exists")
                ELSE Begin(c, "raiseDispute", o, "raise.insert")]
  /\ UNCHANGED <<order, escrow, jobBoard, jobDetail, claimMarker, emitted>>
  /\ UNCHANGED <<exceptSettle, settleVars>>

RaiseInsert(c) ==
  /\ At(c, "raise.insert")
  /\ dispute' = [dispute EXCEPT ![call[c].orderId] = [status |-> "open", resolution |-> ""]]
  /\ Goto(c, "raise.update")
  /\ UNCHANGED <<order, escrow, jobBoard, jobDetail, claimMarker, emitted, commands>>
  /\ UNCHANGED <<amounts, payout, pool, poolLedger, dailyEarnings, totalDeliveries>>
  /\ UNCHANGED exceptSettle

RaiseUpdate(c) ==
  /\ At(c, "raise.update")
  /\ order' = [order EXCEPT ![call[c].orderId].status = "disputed"]
  /\ Goto(c, "raise.emit")
  /\ UNCHANGED <<escrow, jobBoard, jobDetail, claimMarker, emitted, commands>>
  /\ UNCHANGED <<exceptSettle, settleVars>>

RaiseEmit(c) ==
  /\ At(c, "raise.emit")
  /\ Emit("order.disputed")
  /\ call' = [call EXCEPT ![c].pc = "done", ![c].result = "ok"]
  /\ UNCHANGED <<order, escrow, jobBoard, jobDetail, claimMarker, commands>>
  /\ UNCHANGED <<exceptSettle, settleVars>>

\* resolveDispute by an admin: the dispute is read; the order is not
ResolveStart(c, o, resolution) ==
  /\ Idle(c)
  /\ commands' = commands + 1
  /\ call' = [call EXCEPT ![c] =
       IF dispute[o].status = "none"
         THEN Fail(Begin(c, "resolveDispute", o, "idle"), "Dispute not found")
         ELSE IF dispute[o].status = "resolved"
                THEN Fail(Begin(c, "resolveDispute", o, "idle"), "Dispute already resolved")
                ELSE [Begin(c, "resolveDispute", o, "resolve.dispute") EXCEPT
                        !.resolution = resolution]]
  /\ UNCHANGED <<order, escrow, jobBoard, jobDetail, claimMarker, emitted>>
  /\ UNCHANGED <<exceptSettle, settleVars>>

ResolveDisputeUpdate(c) ==
  /\ At(c, "resolve.dispute")
  /\ dispute' = [dispute EXCEPT ![call[c].orderId] =
                   [status |-> "resolved", resolution |-> call[c].resolution]]
  /\ Goto(c, "resolve.order")
  /\ UNCHANGED <<order, escrow, jobBoard, jobDetail, claimMarker, emitted, commands>>
  /\ UNCHANGED <<amounts, payout, pool, poolLedger, dailyEarnings, totalDeliveries>>
  /\ UNCHANGED exceptSettle

\* the order is stored as dispute_resolved; a full refund goes through refundPayment
ResolveOrderUpdate(c) ==
  /\ At(c, "resolve.order")
  /\ order' = [order EXCEPT ![call[c].orderId].status = "dispute_resolved"]
  /\ Goto(c, IF call[c].resolution = "full_refund" THEN "refund.read" ELSE "final.emit")
  /\ UNCHANGED <<escrow, jobBoard, jobDetail, claimMarker, emitted, commands>>
  /\ UNCHANGED <<exceptSettle, settleVars>>

\* settlePayment called on its own, one call after the other
\* ---- poolService.settleDailyMinimums ----
\* params[0]?.dailyMinimumGuarantee ?? 60000; the row holds the default
getDailyMinimum == 60000
\* POST /pool/settle-daily admits the roles coop_admin and customer
DailyCallers == {Admin, Customer}

\* the rows a select returns, in every order the database may return them
Orderings(S) ==
  {seq \in [1..Cardinality(S) -> S] : \A i, j \in 1..Cardinality(S) : seq[i] = seq[j] => i = j}
\* topups.reduce((sum, t) => sum + t.amount, 0)
RECURSIVE TotalTopup(_)
TotalTopup(topups) ==
  IF topups = <<>> THEN 0 ELSE Head(topups).amount + TotalTopup(Tail(topups))
\* Math.min(deficit, remainingBalance)
MathMin(a, b) == IF a <= b THEN a ELSE b

\* SET balance = balance - totalTopup, total_topups = total_topups + totalTopup
TopupUpdate(row, totalTopup) ==
  [row EXCEPT !.balance = @ - totalTopup, !.totalTopups = @ + totalTopup]

\* the loop goes on to the next row, or ends
NextEarning(cmd) ==
  [cmd EXCEPT !.unsettled = Tail(@),
              !.pc = IF Len(cmd.unsettled) > 1 THEN "daily.worker"
                     ELSE IF cmd.topups # <<>> THEN "daily.poolUpdate"
                     ELSE "done",
              !.result = IF Len(cmd.unsettled) > 1 \/ cmd.topups # <<>> THEN "" ELSE "ok"]

\* settleDailyMinimums is called: getDailyMinimum
DailyStart(c) ==
  /\ Idle(c)
  /\ commands' = commands + 1
  /\ call' = [call EXCEPT ![c] =
       [NoCommand EXCEPT !.op = "settleDailyMinimums", !.pc = "daily.select",
                         !.dailyMinimum = getDailyMinimum]]
  /\ UNCHANGED <<order, escrow, jobBoard, jobDetail, claimMarker, emitted>>
  /\ UNCHANGED <<exceptSettle, settleVars>>

\* select of the rows of the date that are not settled
DailySelect(c) ==
  /\ At(c, "daily.select")
  /\ \E rows \in Orderings({w \in Workers : /\ dailyEarnings[w].deliveriesCompleted >= 1
                                           /\ ~dailyEarnings[w].isSettled}) :
       call' = [call EXCEPT ![c].pc = "daily.pool",
                            ![c].unsettled =
                               [i \in DOMAIN rows |->
                                  [workerId |-> rows[i],
                                   totalEarnings |-> dailyEarnings[rows[i]].totalEarnings]]]
  /\ UNCHANGED <<order, escrow, jobBoard, jobDetail, claimMarker, emitted, commands>>
  /\ UNCHANGED <<exceptSettle, settleVars>>

\* getPoolState: remainingBalance = Number(pool.balance)
DailyPool(c) ==
  /\ At(c, "daily.pool")
  /\ call' = [call EXCEPT ![c] =
       IF call[c].unsettled = <<>>
         THEN [call[c] EXCEPT !.remainingBalance = pool.balance, !.pc = "done",
                              !.result = "ok"]
         ELSE [call[c] EXCEPT !.remainingBalance = pool.balance, !.pc = "daily.worker"]]
  /\ UNCHANGED <<order, escrow, jobBoard, jobDetail, claimMarker, emitted, commands>>
  /\ UNCHANGED <<exceptSettle, settleVars>>

\* one row of the loop: the row is marked settled, with a top-up when the worker earned
\* less than the minimum and the running balance is positive
DailyWorkerUpdate(c) ==
  /\ At(c, "daily.worker")
  /\ LET earning == Head(call[c].unsettled)
         deficit == call[c].dailyMinimum - earning.totalEarnings
         topupAmount == MathMin(deficit, call[c].remainingBalance)
     IN IF earning.totalEarnings >= call[c].dailyMinimum \/ topupAmount <= 0
          THEN /\ dailyEarnings' = [dailyEarnings EXCEPT ![earning.workerId].isSettled = TRUE]
               /\ call' = [call EXCEPT ![c] = NextEarning(call[c])]
          ELSE /\ dailyEarnings' = [dailyEarnings EXCEPT ![earning.workerId] =
                    [@ EXCEPT !.poolTopup = topupAmount,
                              !.totalEarnings = earning.totalEarnings + topupAmount,
                              !.isSettled = TRUE]]
               /\ call' = [call EXCEPT
                    ![c].remainingBalance = @ - topupAmount,
                    ![c].topups = Append(@, [workerId |-> earning.workerId,
                                             amount |-> topupAmount]),
                    ![c].pc = "daily.emit"]
  /\ UNCHANGED <<order, escrow, jobBoard, jobDetail, claimMarker, emitted, commands>>
  /\ UNCHANGED <<amounts, payout, pool, poolLedger, totalDeliveries, dispute>>
  /\ UNCHANGED exceptSettle

\* the event of the top-up
DailyEmit(c) ==
  /\ At(c, "daily.emit")
  /\ Emit("payment.pool_topup")
  /\ call' = [call EXCEPT ![c] = NextEarning(call[c])]
  /\ UNCHANGED <<order, escrow, jobBoard, jobDetail, claimMarker, commands>>
  /\ UNCHANGED <<exceptSettle, settleVars>>

\* UPDATE pool_state SET balance = balance - totalTopup
DailyPoolUpdate(c) ==
  /\ At(c, "daily.poolUpdate")
  /\ pool' = TopupUpdate(pool, TotalTopup(call[c].topups))
  /\ Goto(c, "daily.ledger")
  /\ UNCHANGED <<order, escrow, jobBoard, jobDetail, claimMarker, emitted, commands>>
  /\ UNCHANGED <<amounts, payout, poolLedger, dailyEarnings, totalDeliveries, dispute>>
  /\ UNCHANGED exceptSettle

\* insert of the daily_topup line into pool_ledger
DailyLedgerInsert(c) ==
  /\ At(c, "daily.ledger")
  /\ poolLedger' = Append(poolLedger,
       [transactionType |-> "daily_topup", amount |-> 0 - TotalTopup(call[c].topups),
        balanceAfter |-> call[c].remainingBalance, orderId |-> ""])
  /\ call' = [call EXCEPT ![c].pc = "done", ![c].result = "ok"]
  /\ UNCHANGED <<order, escrow, jobBoard, jobDetail, claimMarker, emitted, commands>>
  /\ UNCHANGED <<amounts, payout, pool, dailyEarnings, totalDeliveries, dispute>>
  /\ UNCHANGED exceptSettle

NextPayout ==
  \/ \E o \in OrderIds : CallSettlePayment(Settler, o)
  \/ SettleReadOrder(Settler)
  \/ SettleReadEscrow(Settler)
  \/ SettleEscrowUpdate(Settler)
  \/ SettleOrderUpdate(Settler)
  \/ SettlePoolUpdate(Settler)
  \/ SettlePoolSelect(Settler)
  \/ SettleLedgerInsert(Settler)
  \/ SettleEarningsUpsert(Settler)
  \/ SettleWorkerUpdate(Settler)
  \/ SettleEmit(Settler)

\* settlements of the order while the daily minimums are settled
NextPool ==
  \/ NextPayout
  \/ \E c \in DailyCallers : DailyStart(c)
  \/ \E c \in DailyCallers : DailySelect(c)
  \/ \E c \in DailyCallers : DailyPool(c)
  \/ \E c \in DailyCallers : DailyWorkerUpdate(c)
  \/ \E c \in DailyCallers : DailyEmit(c)
  \/ \E c \in DailyCallers : DailyPoolUpdate(c)
  \/ \E c \in DailyCallers : DailyLedgerInsert(c)

\* settlePayment called on its own while the admin executes proposals
NextGovern ==
  \/ NextPayout
  \/ \E p \in ProposalIds : ExecuteStart(Admin, p)
  \/ ExecuteParamsUpdate(Admin)
  \/ ExecuteProposalUpdate(Admin)
  \/ ExecuteEmit(Admin)

\* confirmDelivery with its settlement, by the callers D
NextDelivery(D) ==
  \/ \E c \in D, o \in OrderIds : DeliverStart(c, o)
  \/ \E c \in D : DeliverUpdate(c)
  \/ \E c \in D : DeliverEmit(c)
  \/ \E c \in D : SettleReadOrder(c)
  \/ \E c \in D : SettleReadEscrow(c)
  \/ \E c \in D : SettleEscrowUpdate(c)
  \/ \E c \in D : SettleOrderUpdate(c)
  \/ \E c \in D : SettlePoolUpdate(c)
  \/ \E c \in D : SettlePoolSelect(c)
  \/ \E c \in D : SettleLedgerInsert(c)
  \/ \E c \in D : SettleEarningsUpsert(c)
  \/ \E c \in D : SettleWorkerUpdate(c)
  \/ \E c \in D : SettleEmit(c)

\* cancelOrder by the customer, and refundPayment and the last event for the callers R
NextCancel(R) ==
  \/ \E o \in OrderIds : CancelStart(Customer, o)
  \/ RemoveZrem(Customer)
  \/ RemoveDetail(Customer)
  \/ RemoveClaim(Customer)
  \/ CancelUpdate(Customer)
  \/ \E c \in R : RefundRead(c)
  \/ \E c \in R : RefundUpdate(c)
  \/ \E c \in R : RefundEmit(c)
  \/ \E c \in R : FinalEmit(c)

\* ---- commands that run one at a time ----
Busy(c) == call[c].pc \notin {"idle", "done", "returned"}
AtMostOneBusy == \A a, b \in Callers : (Busy(a) /\ Busy(b)) => a = b

\* every command of the life of an order; a command starts only when no other runs
NextSequential ==
  /\ \/ NextCreate
     \/ NextOrder
     \/ NextDelivery(Workers)
     \/ NextCancel({Customer, Restaurant, Admin})
     \/ \E o \in OrderIds : RaiseStart(Customer, o)
     \/ RaiseInsert(Customer)
     \/ RaiseUpdate(Customer)
     \/ RaiseEmit(Customer)
     \/ \E o \in OrderIds, resolution \in Resolutions : ResolveStart(Admin, o, resolution)
     \/ ResolveDisputeUpdate(Admin)
     \/ ResolveOrderUpdate(Admin)
  /\ AtMostOneBusy'

\* the worker of the order delivers in two sessions while the customer may cancel
Deliverers == {WorkerNames[1], Session2}
NextDeliver ==
  \/ NextDelivery(Deliverers)
  \/ NextCancel({Customer})

\* the worker delivers; the customer cancels or raises a dispute; an admin resolves it
NextDispute ==
  \/ NextDelivery({WorkerNames[1]})
  \/ NextCancel({Customer, Admin})
  \/ \E o \in OrderIds : RaiseStart(Customer, o)
  \/ RaiseInsert(Customer)
  \/ RaiseUpdate(Customer)
  \/ RaiseEmit(Customer)
  \/ \E o \in OrderIds, resolution \in Resolutions : ResolveStart(Admin, o, resolution)
  \/ ResolveDisputeUpdate(Admin)
  \/ ResolveOrderUpdate(Admin)

(***************************************************************************)
(* The canonical encoder applied to two values                             *)
(***************************************************************************)
\* values that differ in the order of their keys at depth one, two and three, in the
\* order of the elements of an array, in one value, in one key, or in their type
JsonSamples ==
  { JNull, JNum(1), JStr("1"),
    JObj(<< <<"a", JNum(1)>>, <<"b", JStr("x")>> >>),
    JObj(<< <<"b", JStr("x")>>, <<"a", JNum(1)>> >>),
    JObj(<< <<"a", JNum(1)>>, <<"b", JStr("y")>> >>),
    JObj(<< <<"ab", JNum(1)>>, <<"b", JStr("x")>> >>),
    JObj(<< <<"data", JObj(<< <<"a", JNum(1)>>, <<"ab", JArr(<<JNum(1), JNum(2)>>)>> >>)>>,
            <<"b", JNum(2)>> >>),
    JObj(<< <<"b", JNum(2)>>,
            <<"data", JObj(<< <<"ab", JArr(<<JNum(1), JNum(2)>>)>>, <<"a", JNum(1)>> >>)>> >>),
    JObj(<< <<"b", JNum(2)>>,
            <<"data", JObj(<< <<"ab", JArr(<<JNum(2), JNum(1)>>)>>, <<"a", JNum(1)>> >>)>> >>),
    JArr(<<JNum(1), JNum(2)>>),
    JArr(<<JNum(2), JNum(1)>>),
    JArr(<< JObj(<< <<"a", JNum(1)>>, <<"b", JNum(2)>> >>), JObj(<< <<"b", JNum(3)>> >>) >>),
    JArr(<< JObj(<< <<"b", JNum(2)>>, <<"a", JNum(1)>> >>), JObj(<< <<"b", JNum(3)>> >>) >>),
    JArr(<< JObj(<< <<"b", JNum(3)>> >>), JObj(<< <<"a", JNum(1)>>, <<"b", JNum(2)>> >>) >>),
    JObj(<< <<"a", JObj(<< <<"b", JObj(<< <<"a", JNum(1)>>, <<"ab", JNum(2)>> >>)>> >>)>> >>),
    JObj(<< <<"a", JObj(<< <<"b", JObj(<< <<"ab", JNum(2)>>, <<"a", JNum(1)>> >>)>> >>)>> >>) }

NoEncoding == [step |-> "none", left |-> JNull, right |-> JNull, leftText |-> "",
              rightText |-> "", leftHash |-> "", rightHash |-> "", leftBodyHash |-> "",
              rightBodyHash |-> ""]

InitEncode ==
  \E x, y \in JsonSamples : encoding = [NoEncoding EXCEPT !.step = "drawn", !.left = x, !.right = y]

\* stableStringify of both values
Encode ==
  /\ encoding.step = "drawn"
  /\ encoding' = [encoding EXCEPT !.step = "encoded",
                                  !.leftText = stableStringify(encoding.left),
                                  !.rightText = stableStringify(encoding.right)]
  /\ UNCHANGED <<ledgerVars, idemVars, orderVars, settleVars, governVars>>

\* the event hash of an event with each value as data, and the fingerprint of a request
\* with each value as body
Hash ==
  /\ encoding.step = "encoded"
  /\ encoding' =
       [encoding EXCEPT
          !.step = "hashed",
          !.leftHash = computeEventHash("order.created", encoding.left, NullHash, ToISOString(0)),
          !.rightHash = computeEventHash("order.created", encoding.right, NullHash, ToISOString(0)),
          !.leftBodyHash = hashRequestBody(encoding.left),
          !.rightBodyHash = hashRequestBody(encoding.right)]
  /\ UNCHANGED <<ledgerVars, idemVars, orderVars, settleVars, governVars>>

NextEncode == Encode \/ Hash

(***************************************************************************)
(* Specifications                                                          *)
(***************************************************************************)
InitRest == InitLedger /\ InitIdem /\ encoding = NoEncoding
Init == InitRest /\ InitOrder /\ InitBooks(LargestAmounts)
InitBoard == InitRest /\ InitPosted /\ InitBooks(LargestAmounts)
\* a picked-up order whose delivery fee and tip are any of the model's
InitPayout ==
  /\ InitRest /\ InitPickedUp
  /\ \E s \in Subtotals, f \in Fees, t \in Tips :
       InitBooks([subtotal |-> s, deliveryFee |-> f, tip |-> t])
\* two values to encode; nothing else happens
InitPairs == InitLedger /\ InitIdem /\ InitOrder /\ InitBooks(LargestAmounts) /\ InitEncode
\* an order at any of three points of its life: not yet created, paid, picked up
InitLife == InitRest /\ (InitNoOrder \/ InitOrder \/ InitPickedUp) /\ InitBooks(LargestAmounts)
InitSettle == InitRest /\ InitPickedUp /\ InitBooks(LargestAmounts)

\* the order is picked up by w1; earlier today w2 delivered an order with the largest fee
\* and no tip, and w3 one whose tip lifted the day's earnings to the daily minimum
EarlierAmounts == [subtotal |-> 250, deliveryFee |-> MaxFee, tip |-> 0]
GenerousAmounts == [subtotal |-> 250, deliveryFee |-> MaxFee, tip |-> getDailyMinimum]
EarningsOf(a) ==
  LET s == SettlementSplit(a)
  IN [NoEarnings EXCEPT !.deliveriesCompleted = 1, !.deliveryFees = s.workerDeliveryPay,
                        !.tips = s.tip, !.totalEarnings = s.workerPayout]
InitPool ==
  /\ InitRest /\ InitPickedUp
  /\ amounts = [o \in OrderIds |-> LargestAmounts]
  /\ payout = [o \in OrderIds |-> NoPayout]
  /\ LET first == SettlementSplit(EarlierAmounts).poolContribution
         second == SettlementSplit(GenerousAmounts).poolContribution
     IN /\ pool = [balance |-> first + second, totalContributions |-> first + second,
                   totalTopups |-> 0]
        /\ poolLedger =
             <<[transactionType |-> "contribution", amount |-> first,
                balanceAfter |-> first, orderId |-> "o2"],
               [transactionType |-> "contribution", amount |-> second,
                balanceAfter |-> first + second, orderId |-> "o3"]>>
  /\ dailyEarnings = [w \in Workers |->
       IF w = WorkerNames[2] THEN EarningsOf(EarlierAmounts)
       ELSE IF w = WorkerNames[3] THEN EarningsOf(GenerousAmounts)
       ELSE NoEarnings]
  /\ totalDeliveries = [w \in Workers |-> IF w = WorkerNames[1] THEN 0 ELSE 1]
  /\ dispute = [o \in OrderIds |-> NoDispute]
  /\ InitGovern

\* the canonical encoder and the two hashes on every pair of the sample values
SpecEncode == InitPairs /\ [][NextEncode]_vars
\* concurrent appendEvent calls
SpecLedger == Init /\ [][NextLedger]_vars
\* the same, and one stored row may be changed behind the ledger's back
SpecRemove == Init /\ [][NextRemove]_vars
SpecTamper == Init /\ [][NextTamper]_vars
\* requests through the gate while no record expires
SpecIdem == Init /\ [][NextIdem]_vars
\* the same, and records expire
SpecIdemDown == Init /\ [][NextIdemDown]_vars
SpecIdemShared == Init /\ [][NextIdemShared]_vars
SpecIdemTTL == Init /\ [][NextIdemTTL]_vars
\* commands that may stop at any point, and Redis, which does drop a record whose time
\* to live has run out
SpecIdemCrash ==
  /\ Init /\ [][NextIdemTTL]_vars
  /\ \A key \in StoreKeys : WF_vars(Expire(key))
\* workers call claimJob for a posted job
SpecBoard == InitBoard /\ [][NextBoard]_vars
\* the same, and the winner repeats its call
SpecBoardRetry == InitBoard /\ [][NextBoardRetry]_vars
\* claimJob calls that may stop after any step, and Redis, which does drop a key
\* whose time to live has run out
SpecBoardTTL ==
  /\ InitBoard /\ [][NextBoardTTL]_vars
  /\ \A o \in OrderIds : WF_vars(MarkerExpire(o))
\* the order commands of the restaurant, the workers and the customer
SpecOrder == Init /\ [][NextOrder]_vars
\* all commands of the life of an order, never two at the same time
SpecSequential == InitLife /\ [][NextSequential]_vars
SpecAppendFail == Init /\ [][NextAppendFail]_vars
\* settlePayment called on its own on a picked-up order, for every fee and tip
SpecPayout == InitPayout /\ [][NextPayout]_vars
\* the same while the daily minimums are settled by two callers
SpecPool == InitPool /\ [][NextPool]_vars
\* the same while proposals that change the rates are executed
SpecGovern == InitPayout /\ [][NextGovern]_vars
\* two concurrent deliveries of a picked-up order, and its cancellation
SpecDeliver == InitSettle /\ [][NextDeliver]_vars
\* delivery, cancellation and dispute of a picked-up order
SpecDispute == InitSettle /\ [][NextDispute]_vars

(***************************************************************************)
(* Properties of the ledger                                                *)
(***************************************************************************)
Aggregates == AggregateIds \X AggregateTypes
CallsOn(g) == {a \in AppenderIds : /\ appender[a].pc # "idle"
                                   /\ appender[a].aggregateId = g[1]
                                   /\ appender[a].aggregateType = g[2]}
Finished(a) == appender[a].pc \in {"returned", "thrown"}
Returned(g) == {a \in CallsOn(g) : appender[a].pc = "returned"}
VersionsOf(g) == {r.version : r \in RowsOf(eventLog, g[1], g[2])}
\* every call on g has ended, none of them by a store error
Settled(g) == \A a \in CallsOn(g) : Finished(a) /\ appender[a].error # "store"

\* C3 as stated: N concurrent appendEvent calls for one aggregate, for every N, each
\* succeed exactly once and together store exactly the versions 1..N.
C3_EveryCallSucceeds ==
  \A g \in Aggregates :
    Settled(g) =>
      /\ \A a \in CallsOn(g) : appender[a].pc = "returned"
      /\ VersionsOf(g) = 1..Cardinality(CallsOn(g))
      /\ Cardinality(RowsOf(eventLog, g[1], g[2])) = Cardinality(CallsOn(g))

\* C3 amended: when at most MAX_APPEND_RETRIES calls run for one aggregate, each
\* succeeds exactly once and the versions are 1..N; with more calls a call can use up
\* its attempts and throw, and the m calls that succeeded stored exactly 1..m.
C3_UpToRetryBound ==
  \A g \in Aggregates :
    Settled(g) =>
      /\ Cardinality(CallsOn(g)) <= MAX_APPEND_RETRIES
           => \A a \in CallsOn(g) : appender[a].pc = "returned"
      /\ VersionsOf(g) = 1..Cardinality(Returned(g))
      /\ Cardinality(RowsOf(eventLog, g[1], g[2])) = Cardinality(Returned(g))

\* three calls contended for one aggregate and one of them needed its last attempt
C3_Witness ==
  \E g \in Aggregates :
    /\ Settled(g)
    /\ Cardinality(CallsOn(g)) = MAX_APPEND_RETRIES
    /\ \E a \in CallsOn(g) : appender[a].pc = "returned"
                             /\ appender[a].attempt = MAX_APPEND_RETRIES

\* C4: in every reachable state the stored versions of each aggregate are exactly
\* 1..n: they start at 1, have no gap, and no version is stored twice.
C4_GaplessVersions ==
  \A g \in Aggregates :
    LET rows == RowsOf(eventLog, g[1], g[2])
    IN /\ VersionsOf(g) = 1..Cardinality(VersionsOf(g))
       /\ Cardinality(rows) = Cardinality(VersionsOf(g))

\* an aggregate holds three rows although one of its calls failed on conflicts
C4_Witness ==
  \E g \in Aggregates :
    /\ Cardinality(RowsOf(eventLog, g[1], g[2])) >= MAX_APPEND_RETRIES
    /\ \E a \in CallsOn(g) : appender[a].pc = "thrown" /\ appender[a].error = "conflict"

\* the chain of g read straight from the rows: null link first, then hash links, and
\* every stored hash is the hash of the row's own fields
ChainWellFormed(g) ==
  \A r \in RowsOf(eventLog, g[1], g[2]) :
    /\ r.version = 1 => r.previousHash = NullHash
    /\ r.version > 1 => \E q \in RowsOf(eventLog, g[1], g[2]) :
                          q.version = r.version - 1 /\ r.previousHash = q.hash
    /\ r.hash = computeEventHash(r.eventType, r.data, r.previousHash,
                                 ToISOString(r.occurredAt))

FailingVersions(g) ==
  LET rows == RowsOf(eventLog, g[1], g[2])
  IN {r.version : r \in {x \in rows :
        \/ x.previousHash #
             (IF \E q \in rows : q.version < x.version
                THEN (CHOOSE q \in rows : /\ q.version < x.version
                                          /\ \A p \in rows : p.version < x.version
                                                               => p.version <= q.version).hash
                ELSE NullHash)
        \/ x.hash # computeEventHash(x.eventType, x.data, x.previousHash,
                                     ToISOString(x.occurredAt))}}

\* C6: when the stored data of one event, of version v, is changed, verifyHashChain
\* returns valid=false with brokenAtVersion v or the first version after v, and that
\* version is the lowest one at which a check fails.
C6_TamperDetected ==
  \A t \in tampered :
    LET res == verifyHashChain(t.aggregateId, t.aggregateType)
        g == <<t.aggregateId, t.aggregateType>>
        later == {v \in VersionsOf(g) : v > t.version}
    IN /\ res.valid = FALSE
       /\ \/ res.brokenAtVersion = t.version
          \/ later # {} /\ res.brokenAtVersion = CHOOSE v \in later : \A w \in later : v <= w
       /\ res.brokenAtVersion \in FailingVersions(g)
       /\ \A v \in FailingVersions(g) : res.brokenAtVersion <= v

\* an event in the middle of a chain of three was changed
C6_Witness ==
  \E t \in tampered :
    /\ t.version = 2
    /\ Cardinality(RowsOf(eventLog, t.aggregateId, t.aggregateType)) >= 3


(***************************************************************************)
(* Properties of the idempotency gate                                      *)
(***************************************************************************)
Tokened(r) == request[r].key # ""
SameCommand(r, p) ==
  /\ Tokened(r)
  /\ request[r].key = request[p].key
  /\ request[r].requestHash = request[p].requestHash
Executing(r) == request[r].pc = "executing"
Passed(r) == request[r].pc \in {"executing", "finish", "answered"}

\* C7: while no record expires, of the requests with one key and one body at most one
\* is executing the command at any time, and once one of them was finalised as done
\* no request with that key starts the command
C7_AtMostOneExecutes ==
  /\ \A r, p \in ReqIds : (r # p /\ SameCommand(r, p)) => ~(Executing(r) /\ Executing(p))
  /\ \A r \in ReqIds : ~request[r].late

\* C8: a request that arrives with the same key and body after a finalisation as done,
\* and before that record expired, is answered with the finalised status and body and
\* the replay header, and its command does not run
C8_ReplayedUntilExpiry ==
  \A r \in ReqIds :
    (request[r].owed # None /\ Passed(r)) =>
       /\ request[r].pc = "answered"
       /\ ~request[r].executed
       /\ request[r].replay
       /\ request[r].statusCode = request[r].owed.statusCode
       /\ request[r].body = request[r].owed.body

\* C9: a request that finds the in_flight record of a request with the same key and
\* body is answered 409 'Duplicate request in progress' and its command does not run
C9_DuplicateRejected ==
  \A r \in ReqIds :
    (request[r].seen.state = "in_flight"
       /\ request[r].seen.requestHash = request[r].requestHash) =>
       /\ request[r].pc = "answered"
       /\ request[r].statusCode = 409
       /\ request[r].body = DuplicateInProgress
       /\ ~request[r].replay
       /\ ~request[r].executed

\* a duplicate was rejected while the first request is still running its command
C9_Witness ==
  \E r, p \in ReqIds :
    /\ r # p /\ SameCommand(r, p)
    /\ Executing(p) /\ request[p].handler
    /\ request[r].pc = "answered" /\ request[r].seen = idemStore[request[r].key]
    /\ request[r].seen.state = "in_flight"
    /\ request[r].body = DuplicateInProgress

\* C10: a request that finds a record of its key with another fingerprint, in_flight
\* or done, is answered 409 'Idempotency key reuse with different request body', its
\* command does not run, and the steps of the gate that refuse it leave the store alone
C10_KeyReuseRejected ==
  /\ [](\A r \in ReqIds :
          (request[r].seen # NoEntry
             /\ request[r].seen.requestHash # request[r].requestHash) =>
             /\ request[r].pc = "answered"
             /\ request[r].statusCode = 409
             /\ request[r].body = KeyReuse
             /\ ~request[r].replay
             /\ ~request[r].executed)
  /\ [][\A r \in ReqIds :
          (\/ request[r].pc = "idle" /\ request'[r].pc = "get"
           \/ request[r].pc = "get" /\ request'[r].body = KeyReuse) =>
             idemStore' = idemStore]_vars

\* one request was refused against an in_flight record and one against a done record
C10_Witness ==
  \E r, p \in ReqIds :
    /\ request[r].body = KeyReuse /\ request[r].seen.state = "in_flight"
    /\ request[p].body = KeyReuse /\ request[p].seen.state = "done"
    /\ idemStore[request[p].key] = request[p].seen

\* C11: the finalisation of a tokened request that completed outside 2xx leaves no
\* record under its key, and a tokened request that arrives while its key has no
\* record is admitted: it takes the in_flight record and its command runs
C11_FailureNotCached ==
  /\ [][\A r \in ReqIds :
          (/\ request[r].pc = "finish" /\ request'[r].pc = "answered"
           /\ (request[r].statusCode < 200 \/ request[r].statusCode >= 300)) =>
             idemStore'[request[r].key] = NoEntry]_vars
  /\ [][\A r \in ReqIds :
          (/\ request[r].pc = "idle" /\ request'[r].pc # "idle"
           /\ request'[r].key # ""
           /\ idemStore[request'[r].key] = NoEntry) =>
             /\ request'[r].pc = "executing" /\ request'[r].executed
             /\ idemStore'[request'[r].key] = inFlightEntry(request'[r].requestHash)]_vars

\* a request was finalised with a 400 and a later request with the same key and body
\* is running the command under its own in_flight record
C11_Witness ==
  \E r, p \in ReqIds :
    /\ r # p /\ SameCommand(r, p)
    /\ request[r].pc = "answered" /\ request[r].handler /\ request[r].statusCode = 400
    /\ Executing(p) /\ request[p].handler /\ request[p].seen = NoEntry
    /\ idemStore[request[p].key] = inFlightEntry(request[p].requestHash)
    /\ finalised[request[p].key] = None

(***************************************************************************)
(* Properties of the job claim registry and of the order commands          *)
(***************************************************************************)
ClaimAttempts(o) == {w \in Workers : call[w].op = "claimJob" /\ call[w].orderId = o}
ClaimWinners(o) == {w \in ClaimAttempts(o) : call[w].pc = "returned" /\ call[w].claimed}
ClaimLosers(o) == {w \in ClaimAttempts(o) : call[w].pc = "returned" /\ ~call[w].claimed}

\* C1: when the claimJob attempts of distinct workers on a posted job have all returned,
\* exactly one of them returned true, the others returned false, and the order is not
\* among the available jobs
C1_ExactlyOneWinner ==
  \A o \in OrderIds :
    (ClaimAttempts(o) # {} /\ \A w \in ClaimAttempts(o) : call[w].pc = "returned") =>
       /\ Cardinality(ClaimWinners(o)) = 1
       /\ ClaimLosers(o) = ClaimAttempts(o) \ ClaimWinners(o)
       /\ o \notin getAvailableJobs

\* every worker has made its attempt and all attempts have returned
C1_Witness ==
  \E o \in OrderIds :
    /\ ClaimAttempts(o) = Workers
    /\ Cardinality(ClaimWinners(o)) = 1
    /\ Cardinality(ClaimLosers(o)) = NumWorkers - 1

\* the workers whose workerClaim for order o has reported success
SuccessfulClaimants(o) ==
  {w \in Workers : /\ call[w].op = "workerClaim" /\ call[w].orderId = o
                   /\ call[w].pc = "done" /\ call[w].result = "ok"}

\* C2: for every order at most one worker's workerClaim reports success, whatever the
\* interleaving with the other commands, cancelOrder included (no claim marker expires);
\* every other claimant ends with an error
C2_AtMostOneClaimant ==
  \A o \in OrderIds :
    /\ Cardinality(SuccessfulClaimants(o)) <= 1
    /\ \A w \in Workers :
         (call[w].op = "workerClaim" /\ call[w].pc = "done") => call[w].result # ""

\* C16: cancelled is terminal: once an order is stored as cancelled, no step of any
\* command, started later or already running, changes its status
C16_CancelledIsTerminal ==
  [][\A o \in OrderIds :
       order[o].status = "cancelled" => order'[o].status = "cancelled"]_vars

\* C19: when cancelOrder has succeeded for an order that it read as posted to the board
\* with no worker, the order is not among the available jobs
C19_CancelledNotAvailable ==
  \A c \in Callers :
    (/\ call[c].op = "cancelOrder" /\ call[c].pc = "done" /\ call[c].result = "ok"
     /\ call[c].seen.status = "posted_to_board" /\ call[c].seen.workerId = "") =>
       call[c].orderId \notin getAvailableJobs

\* C20: in every state, the states between the steps of claimJob included, an order
\* that has a claim marker is not among the available jobs
C20_ClaimedNotAvailable ==
  \A o \in OrderIds : claimMarker[o] # NoMarker => o \notin getAvailableJobs

(***************************************************************************)
(* Properties of the settlement                                            *)
(***************************************************************************)
\* C15: for every settlement with a positive delivery fee the pool contribution, the
\* cooperative's fee and the worker's delivery pay add up to the delivery fee exactly,
\* and the worker's payout is the delivery pay plus the tip; so in the numbers the call
\* computed, so in the payout fields it stored
C15_FeeSplitConserved ==
  /\ \A c \in Callers :
       (call[c].split # NoSplit /\ amounts[call[c].orderId].deliveryFee > 0) =>
         LET s == call[c].split
             a == amounts[call[c].orderId]
         IN /\ s.poolContribution + s.coopFee + s.workerDeliveryPay = a.deliveryFee
            /\ s.workerPayout = s.workerDeliveryPay + a.tip
  /\ \A o \in OrderIds :
       escrow[o] = "settled" =>
         payout[o].poolContribution + payout[o].coopFee + payout[o].workerPayout
           = amounts[o].deliveryFee + amounts[o].tip

\* a settlement has returned for a fee that the rates do not divide, with a tip
C15_Witness ==
  \E c \in Callers :
    /\ call[c].settled
    /\ amounts[call[c].orderId].deliveryFee % 10 # 0
    /\ amounts[call[c].orderId].tip > 0
    /\ payout[call[c].orderId].poolContribution > 0
    /\ escrow[call[c].orderId] = "settled"

\* the pool-ledger lines of order o
LedgerLines(o) == {i \in 1..Len(poolLedger) : poolLedger[i].orderId = o}
\* the worker the order is assigned to
WorkerOfOrder(o) == order[o].workerId

\* C12: every settlePayment call for an order that has ended returned the payout
\* numbers of the order, the second call the same as the first, and the pool balance,
\* the pool ledger and the worker's daily earnings hold the order's amounts once
C12_SettleTwiceSame ==
  /\ \A c \in Callers :
       (call[c].op = "settlePayment" /\ call[c].pc = "done") =>
          /\ call[c].settled
          /\ call[c].split = SettlementSplit(amounts[call[c].orderId])
  /\ \A o \in OrderIds :
       /\ pool.balance <= SettlementSplit(amounts[o]).poolContribution
       /\ Cardinality(LedgerLines(o)) <= 1
       /\ dailyEarnings[WorkerOfOrder(o)].deliveriesCompleted <= 1

\* C13: in every interleaving, two concurrent confirmDelivery calls included, the pool
\* is credited with the order's contribution at most once, the order has at most one
\* pool-ledger line, and the worker's daily earnings count the order at most once
C13_CreditedAtMostOnce ==
  \A o \in OrderIds :
    /\ pool.balance <= SettlementSplit(amounts[o]).poolContribution
    /\ pool.totalContributions <= SettlementSplit(amounts[o]).poolContribution
    /\ Cardinality(LedgerLines(o)) <= 1
    /\ \A w \in Workers :
         /\ dailyEarnings[w].deliveriesCompleted <= 1
         /\ dailyEarnings[w].totalEarnings <= SettlementSplit(amounts[o]).workerPayout
         /\ totalDeliveries[w] <= 1

\* C14: the settlement is all or nothing in every state: the escrow record is settled
\* exactly when the order is stored as settled, the pool holds the contribution, the
\* order has its pool-ledger line and the worker's daily earnings hold the payout
C14_SettlementAtomic ==
  \A o \in OrderIds :
    LET s == SettlementSplit(amounts[o])
        w == WorkerOfOrder(o)
    IN /\ escrow[o] = "settled" =>
            /\ order[o].status = "settled"
            /\ pool.balance >= s.poolContribution
            /\ LedgerLines(o) # {}
            /\ dailyEarnings[w].deliveriesCompleted >= 1
            /\ dailyEarnings[w].totalEarnings >= s.workerPayout
       /\ (\/ order[o].status = "settled"
           \/ pool.balance > 0
           \/ LedgerLines(o) # {}
           \/ dailyEarnings[w].deliveriesCompleted >= 1) => escrow[o] = "settled"

\* C18: once the escrow record of an order is settled, no step of any command, the
\* resolution of a dispute by an admin and the cancellation included, changes its
\* status or its payout fields
C18_SettledEscrowFrozen ==
  [][\A o \in OrderIds :
       escrow[o] = "settled" => (escrow'[o] = "settled" /\ payout'[o] = payout[o])]_vars

\* the status a command is to store
TargetStatus ==
  [restaurantAccept |-> "restaurant_accepted", restaurantReject |-> "restaurant_rejected",
   workerClaim |-> "worker_claimed", workerPickup |-> "picked_up",
   confirmDelivery |-> "delivered", cancelOrder |-> "cancelled",
   raiseDispute |-> "disputed", resolveDispute |-> "dispute_resolved"]

\* C17: a command that is called while its target status is not an allowed successor
\* of the order's status ends at once with an error, and the step leaves the order, the
\* escrow record, the job board, the emitted events and the books unchanged
C17_IllegalTransitionRejected ==
  [][\A c \in Callers :
       (/\ commands' = commands + 1
        /\ call'[c] # call[c]
        /\ call'[c].op \in DOMAIN TargetStatus
        /\ ~canTransition(order[call'[c].orderId].status, TargetStatus[call'[c].op])) =>
          /\ call'[c].pc = "done"
          /\ call'[c].result \notin {"", "ok"}
          /\ UNCHANGED <<order, escrow, jobBoard, jobDetail, claimMarker, emitted>>
          /\ UNCHANGED settleVars]_vars

(***************************************************************************)
(* Further properties of the ledger, the claim registry and workerClaim    *)
(***************************************************************************)
\* how far a call has come: every pass is a read and an insert, the end is beyond the
\* last pass
StepsTaken(c) ==
  CASE c.pc = "idle" -> 0
    [] c.pc = "read" -> 2 * c.attempt - 1
    [] c.pc = "insert" -> 2 * c.attempt
    [] OTHER -> 2 * MAX_APPEND_RETRIES + 1

\* C24: every appendEvent call ends after at most MAX_APPEND_RETRIES passes of read,
\* compute and insert: a call that returns has stored exactly one event in its last
\* step, a call that throws stores none, and a call throws for a version conflict only
\* when all its passes were rejected; every step of a call brings it nearer to its end
C24_BoundedAttempts ==
  /\ [](\A a \in AppenderIds :
          /\ appender[a].attempt <= MAX_APPEND_RETRIES
          /\ (appender[a].pc = "thrown" /\ appender[a].error = "conflict") =>
               appender[a].attempt = MAX_APPEND_RETRIES)
  /\ [][\A a \in AppenderIds :
          appender'[a] # appender[a] =>
            IF appender'[a].pc = "returned"
              THEN eventLog \subseteq eventLog' /\ Cardinality(eventLog' \ eventLog) = 1
              ELSE eventLog' = eventLog]_vars
  /\ [][\A a \in AppenderIds :
          appender'[a] # appender[a] => StepsTaken(appender'[a]) > StepsTaken(appender[a])]_vars

\* one call threw after its third conflict, another stored its event on its third pass
C24_Witness ==
  \E a, b \in AppenderIds :
    /\ appender[a].pc = "thrown" /\ appender[a].error = "conflict"
    /\ appender[a].attempt = MAX_APPEND_RETRIES
    /\ appender[b].pc = "returned" /\ appender[b].attempt = MAX_APPEND_RETRIES
    /\ \E r \in eventLog : r.version = appender[b].version /\ r.eventType = TypeOfCall(b)

\* C30: a claimJob call for an order whose marker holds another worker's id returns
\* false, and its steps leave the marker's holder and expiry, the sorted set and the
\* job detail unchanged
C30_LosingClaimChangesNothing ==
  [][\A c \in Workers :
       (/\ call[c].op = "claimJob" /\ call'[c] # call[c]
        /\ call[c].pc \in {"claim.setnx", "claim.get"}
        /\ claimMarker[call[c].orderId].holder \notin {"", c}) =>
          /\ UNCHANGED <<claimMarker, jobBoard, jobDetail>>
          /\ call[c].pc = "claim.setnx" => call'[c].pc = "claim.get"
          /\ call[c].pc = "claim.get" => (call'[c].pc = "returned" /\ ~call'[c].claimed)]_vars

\* a claimJob call returned false while the marker holds the winner with its expiry
C30_Witness ==
  \E c \in Workers :
    /\ call[c].op = "claimJob" /\ call[c].pc = "returned" /\ ~call[c].claimed
    /\ claimMarker[call[c].orderId].holder \notin {"", c}
    /\ claimMarker[call[c].orderId].ttl = CLAIM_TTL_SEC

\* C21: workerClaim stores worker_claimed only after claimJob returned true for that
\* worker; when claimJob returns false the command ends with 'Job already claimed by
\* another worker' and leaves the order's status and worker and the events unchanged
C21_ClaimGatesTransition ==
  /\ [](\A c \in Workers :
          (call[c].op = "workerClaim" /\ call[c].pc \in {"claim.update", "claim.emit"}) =>
             call[c].claimed)
  /\ [][\A c \in Workers :
          (/\ call[c].op = "workerClaim" /\ call[c].pc = "claim.get" /\ call'[c] # call[c]
           /\ claimMarker[call[c].orderId].holder # c) =>
             /\ call'[c].pc = "done"
             /\ call'[c].result = "Job already claimed by another worker"
             /\ order' = order /\ emitted' = emitted]_vars
  /\ [][\A o \in OrderIds :
          (order'[o] # order[o] /\ order'[o].status = "worker_claimed") =>
             \E c \in Workers :
               /\ call[c].op = "workerClaim" /\ call[c].pc = "claim.update"
               /\ call[c].claimed /\ order'[o].workerId = c]_vars

\* a workerClaim failed against the marker of the worker who holds the order
C21_Witness ==
  \E c \in Workers :
    /\ call[c].op = "workerClaim" /\ call[c].pc = "done"
    /\ call[c].result = "Job already claimed by another worker"
    /\ order[call[c].orderId].status = "worker_claimed"
    /\ order[call[c].orderId].workerId \notin {"", c}
    /\ claimMarker[call[c].orderId].holder = order[call[c].orderId].workerId


\* C26: every claim marker that claimJob created is eventually gone again, by expiry or
\* by deletion, wherever the claiming process stops
C26_MarkerEventuallyGone ==
  \A o \in OrderIds : (claimMarker[o] # NoMarker) ~> (claimMarker[o] = NoMarker)


\* C25: an in_flight record does not stay for ever, whether or not its command ever
\* finalises it, and a tokened write request that arrives when its key holds no record
\* is admitted and executes: a retried request is not locked out for ever
C25_InFlightExpires ==
  /\ \A key \in StoreKeys :
       (idemStore[key].state = "in_flight") ~> (idemStore[key].state # "in_flight")
  /\ [][\A r \in ReqIds :
          (/\ request[r].pc = "idle" /\ request'[r].pc # "idle"
           /\ request'[r].key # "" /\ idemStore[request'[r].key] = NoEntry) =>
             /\ request'[r].pc = "executing" /\ request'[r].executed
             /\ idemStore'[request'[r].key].state = "in_flight"]_vars

\* a command is still running, its record has expired, and a retry with the same key
\* and body was admitted and runs
C25_Witness ==
  \E r1, r2 \in ReqIds :
    /\ r1 # r2
    /\ request[r1].pc = "executing" /\ request[r1].handler
    /\ request[r2].pc = "executing" /\ request[r2].handler
    /\ request[r1].key = request[r2].key
    /\ request[r1].requestHash = request[r2].requestHash
    /\ idemStore[request[r1].key].state = "in_flight"


\* C22: a tokened write request for which a store operation of the gate failed is passed
\* through: its command executes, without finish handler, and the answer it gets is the
\* command's own, never a rejection or a replay by the gate
C22_StoreFailurePassesThrough ==
  \A r \in ReqIds :
    request[r].failed =>
      /\ request[r].executed /\ ~request[r].handler /\ ~request[r].replay
      /\ request[r].pc \in {"executing", "answered"}
      /\ request[r].pc = "answered" =>
           \E o \in Outcomes(r) : o.statusCode = request[r].statusCode /\ o.body = request[r].body

\* a request whose GET failed was answered by its command while the command of another
\* request with the same key is still running under its in_flight record
C22_Witness ==
  \E r, p \in ReqIds :
    /\ r # p
    /\ request[r].failed /\ request[r].pc = "answered" /\ IsSuccess(request[r].statusCode)
    /\ request[r].seen = NoEntry
    /\ request[p].key = request[r].key
    /\ request[p].pc = "executing" /\ request[p].handler
    /\ idemStore[request[p].key].state = "in_flight"


\* C27: a request that the gate answers from a record, with a 409 or with a replay, is
\* answered from a record of its own principal: another request of the same principal
\* with the same key took that record
C27_PrincipalsIsolated ==
  \A r \in ReqIds :
    (request[r].pc = "answered" /\ ~request[r].executed) =>
      \E p \in ReqIds \ {r} :
        /\ request[p].principal = request[r].principal
        /\ request[p].key = request[r].key
        /\ request[p].handler


\* C23: a command whose event is not appended, because appendEvent threw after its last
\* retry or for a store error, ends with that error and never with a success result
C23_AppendFailureIsAnError ==
  [][\A c \in Callers :
       (call[c].pc \in EmitPcs /\ call'[c] # call[c] /\ emitted' = emitted) =>
          /\ call'[c].pc = "done"
          /\ call'[c].result \in AppendErrors]_vars

\* workerClaim stored worker_claimed, its event was not appended, and it returned the
\* error
C23_Witness ==
  \E c \in Workers :
    /\ call[c].op = "workerClaim" /\ call[c].pc = "done"
    /\ call[c].result \in AppendErrors
    /\ order[call[c].orderId] = [status |-> "worker_claimed", workerId |-> c]
    /\ \A i \in 1..Len(emitted) : emitted[i] # "order.worker_claimed"


\* C28: the pool contribution and the infrastructure fee that settlePayment computes
\* are the delivery fee times a governed rate: the rate system_parameters held when
\* settlePayment was called or the one it holds when the numbers are computed, so a
\* settlement called after the execution of a proposal uses the new rate
C28_SettlementUsesGovernedRates ==
  [][\A c \in Callers :
       (call[c].pc = "settle.escrow" /\ call'[c].pc = "settle.escrowUpdate") =>
          LET fee == amounts[call[c].orderId].deliveryFee
              Governed(parameter) == {call[c].rates[parameter], systemParameters[parameter]}
          IN /\ \E rate \in Governed("pool_contribution_rate") :
                  call'[c].split.poolContribution = (fee * rate) \div 100
             /\ \E rate \in Governed("infra_fee_rate") :
                  call'[c].split.coopFee = (fee * rate) \div 100]_vars


\* equal up to the order of the keys of objects, at every depth; arrays element by element
RECURSIVE SameUpToKeyOrder(_, _)
SameUpToKeyOrder(x, y) ==
  /\ x.k = y.k
  /\ CASE x.k = "arr" ->
            /\ Len(x.items) = Len(y.items)
            /\ \A i \in 1..Len(x.items) : SameUpToKeyOrder(x.items[i], y.items[i])
       [] x.k = "obj" ->
            /\ Len(x.items) = Len(y.items)
            /\ \A i \in 1..Len(x.items) :
                 /\ HasKey(y.items, x.items[i][1])
                 /\ SameUpToKeyOrder(x.items[i][2], ValueOfKey(y.items, x.items[i][1]))
       [] OTHER -> x.s = y.s /\ x.n = y.n

\* C29: two values encode to the same string exactly when they are equal up to the
\* order of object keys at any depth, so arrays that differ in the order of their
\* elements encode differently; values with the same encoding have the same event hash
\* and the same request fingerprint
C29_EncodingIgnoresKeyOrderOnly ==
  /\ encoding.step \in {"encoded", "hashed"} =>
       (SameUpToKeyOrder(encoding.left, encoding.right)
          <=> encoding.leftText = encoding.rightText)
  /\ encoding.step = "hashed" =>
       /\ SameUpToKeyOrder(encoding.left, encoding.right) =>
            /\ encoding.leftHash = encoding.rightHash
            /\ encoding.leftBodyHash = encoding.rightBodyHash
       /\ ~SameUpToKeyOrder(encoding.left, encoding.right) =>
            /\ encoding.leftHash # encoding.rightHash
            /\ encoding.leftBodyHash # encoding.rightBodyHash

\* two objects whose keys are in another order two levels down have one hash and one
\* fingerprint
C29_Witness ==
  /\ encoding.step = "hashed"
  /\ encoding.left # encoding.right
  /\ encoding.left.k = "obj"
  /\ \E i \in 1..Len(encoding.left.items) :
       /\ encoding.left.items[i][2].k = "obj"
       /\ ~HasKey(encoding.right.items, encoding.left.items[i][1])
          \/ ValueOfKey(encoding.right.items, encoding.left.items[i][1]) # encoding.left.items[i][2]
  /\ encoding.leftText = encoding.rightText
  /\ encoding.leftHash = encoding.rightHash
  /\ encoding.leftBodyHash = encoding.rightBodyHash


(***************************************************************************)
(* Properties of repeated claims, of the status graph and of the commands' *)
(* effects                                                                 *)
(***************************************************************************)
\* C31: a claimJob call repeated by the worker whose id the marker holds returns true,
\* and its steps leave the marker with its expiry, the sorted set and the job detail
\* as they are
C31_RepeatedClaimIsIdempotent ==
  [][\A c \in Workers :
       (/\ call[c].op = "claimJob" /\ call[c].repeated /\ call'[c] # call[c]
        /\ call[c].pc \in {"claim.setnx", "claim.get"}
        /\ claimMarker[call[c].orderId].holder = c) =>
          /\ UNCHANGED <<claimMarker, jobBoard, jobDetail>>
          /\ call[c].pc = "claim.setnx" => call'[c].pc = "claim.get"
          /\ call[c].pc = "claim.get" => (call'[c].pc = "returned" /\ call'[c].claimed)]_vars

\* the repeated call of the winner has returned true; the registry is as the first
\* claim left it
C31_Witness ==
  \E c \in Workers :
    /\ call[c].op = "claimJob" /\ call[c].repeated
    /\ call[c].pc = "returned" /\ call[c].claimed
    /\ claimMarker[call[c].orderId] = [holder |-> c, ttl |-> CLAIM_TTL_SEC]
    /\ call[c].orderId \notin jobBoard /\ call[c].orderId \notin jobDetail


\* C32: when commands run one at a time, every change of the stored status of an order
\* goes along an edge of ORDER_STATUS_TRANSITIONS
C32_SequentialChangesFollowEdges ==
  [][\A o \in OrderIds :
       (order[o].status # "" /\ order'[o].status # order[o].status) =>
          order'[o].status \in ORDER_STATUS_TRANSITIONS[order[o].status]]_vars

\* commands were run one after the other up to the resolution of a dispute
C32_Witness ==
  \E o \in OrderIds :
    /\ order[o].status = "dispute_resolved"
    /\ \A c \in Callers : ~Busy(c)
    /\ commands >= 3


\* the events of the order contain the first type and, later, the second
Followed(first, second) ==
  \E i, j \in 1..Len(emitted) : i < j /\ emitted[i] = first /\ emitted[j] = second
\* the step in which the command op of caller c reports success
Succeeds(c, op) ==
  /\ call[c].op = op /\ call[c].pc # "done"
  /\ call'[c].op = op /\ call'[c].pc = "done" /\ call'[c].result = "ok"

\* C33 as stated: when restaurantAccept reports success the stored status is
\* posted_to_board, the order is among the available jobs and the events contain
\* order.restaurant_accepted followed by order.posted_to_board
C33_AcceptedIsPosted ==
  [][\A c \in Callers :
       Succeeds(c, "restaurantAccept") =>
         /\ order'[call[c].orderId].status = "posted_to_board"
         /\ call[c].orderId \in getAvailableJobs'
         /\ Followed("order.restaurant_accepted", "order.posted_to_board")']_vars

\* C33, amended: when restaurantAccept reports success the events contain
\* order.restaurant_accepted followed by order.posted_to_board, and if no other caller
\* has called a command on the order, the stored status is posted_to_board and the order
\* is among the available jobs
C33_AcceptedIsPostedUndisturbed ==
  [][\A c \in Callers :
       Succeeds(c, "restaurantAccept") =>
         /\ Followed("order.restaurant_accepted", "order.posted_to_board")'
         /\ (\A a \in Callers \ {c} : call[a].op = "") =>
              /\ order'[call[c].orderId].status = "posted_to_board"
              /\ call[c].orderId \in getAvailableJobs']_vars

\* restaurantAccept has reported success with no other command called
C33_Witness ==
  /\ call[Restaurant].op = "restaurantAccept" /\ call[Restaurant].result = "ok"
  /\ \A a \in Callers \ {Restaurant} : call[a].op = ""
  /\ \E o \in OrderIds : order[o].status = "posted_to_board" /\ o \in getAvailableJobs


\* C34 as stated: when confirmDelivery reports success the escrow record is settled,
\* the stored status is settled and the events contain order.delivered followed by
\* order.settled
C34_DeliveredIsSettled ==
  [][\A c \in Callers :
       Succeeds(c, "confirmDelivery") =>
         /\ escrow'[call[c].orderId] = "settled"
         /\ order'[call[c].orderId].status = "settled"
         /\ Followed("order.delivered", "order.settled")']_vars

\* C34, amended: when confirmDelivery reports success the events contain
\* order.delivered followed by order.settled, and if no other caller has called a
\* command on the order, the escrow record and the stored status are settled
C34_DeliveredIsSettledUndisturbed ==
  [][\A c \in Callers :
       Succeeds(c, "confirmDelivery") =>
         /\ Followed("order.delivered", "order.settled")'
         /\ (\A a \in Callers \ {c} : call[a].op = "") =>
              /\ escrow'[call[c].orderId] = "settled"
              /\ order'[call[c].orderId].status = "settled"]_vars

\* confirmDelivery has reported success with no other command called; the payout is
\* stored
C34_Witness ==
  \E c \in Workers :
    /\ call[c].op = "confirmDelivery" /\ call[c].result = "ok" /\ call[c].pc = "done"
    /\ \A a \in Callers \ {c} : call[a].op = ""
    /\ escrow[call[c].orderId] = "settled" /\ order[call[c].orderId].status = "settled"
    /\ payout[call[c].orderId] # NoPayout


\* the events of the escrow record, which are not in the order's ledger
PaymentEvents == {"payment.authorized", "payment.refunded", "payment.restaurant_transferred",
                  "payment.worker_transferred", "payment.pool_contribution"}
\* the type of the latest event of the order's ledger
RECURSIVE LatestOrderEvent(_)
LatestOrderEvent(events) ==
  IF events = <<>> THEN ""
  ELSE IF events[Len(events)] \in PaymentEvents
         THEN LatestOrderEvent(SubSeq(events, 1, Len(events) - 1))
         ELSE events[Len(events)]

\* C35: when no command is in progress and none has failed, the latest event of the
\* order's ledger is order.<status> for the stored status of the order
C35_LatestEventNamesStatus ==
  (\A c \in Callers : ~Busy(c) /\ call[c].result \in {"", "ok"}) =>
     \A o \in OrderIds :
       order[o].status # "" => LatestOrderEvent(emitted) = "order." \o order[o].status


\* C36: after one event that was not the last of its aggregate's chain was removed,
\* verifyHashChain returns valid=false for that aggregate, also when further events are
\* appended afterwards
C36_RemovalDetected ==
  \A t \in tampered : ~verifyHashChain(t.aggregateId, t.aggregateType).valid

\* the first event of a chain was removed, and the second of a chain of three: the chain
\* is reported broken at the event that followed the removed one
C36_Witness ==
  \E t \in tampered :
    LET res == verifyHashChain(t.aggregateId, t.aggregateType)
    IN /\ t.version = 2
       /\ Cardinality(RowsOf(eventLog, t.aggregateId, t.aggregateType)) >= 2
       /\ res.brokenAtVersion = 3


\* C37: the finish handler of a request whose in_flight record expired, and under whose key
\* a later request was admitted since, leaves the in_flight record of that later request
\* as it is
C37_LateCompletionSparesRecord ==
  [][\A r \in ReqIds :
       (/\ request[r].pc = "finish" /\ request'[r].pc = "answered"
        /\ request[r].superseded
        /\ idemStore[request[r].key].state = "in_flight")
       => idemStore'[request[r].key] = idemStore[request[r].key]]_vars


\* C38: at most one payment.refunded event is appended for the escrow of an order, in
\* every interleaving of the commands that refund
C38_RefundedAtMostOnce ==
  Cardinality({i \in DOMAIN emitted : emitted[i] = "payment.refunded"}) <= 1


\* C39: the pool balance is never negative, in every interleaving of settlePayment and
\* settleDailyMinimums calls, two settleDailyMinimums calls at once included
C39_PoolNeverNegative == pool.balance >= 0

\* C40: the row of pool_state always satisfies balance = totalContributions - totalTopups
C40_BalanceIsContributionsLessTopups ==
  pool.balance = pool.totalContributions - pool.totalTopups

\* the order's contribution was added by settlePayment and a top-up was subtracted by
\* settleDailyMinimums
C40_Witness ==
  /\ pool.totalTopups > 0
  /\ \E o \in OrderIds :
       /\ payout[o] # NoPayout
       /\ pool.totalContributions >=
            SettlementSplit(EarlierAmounts).poolContribution
            + SettlementSplit(GenerousAmounts).poolContribution
            + SettlementSplit(amounts[o]).poolContribution
       /\ SettlementSplit(amounts[o]).poolContribution > 0

====
